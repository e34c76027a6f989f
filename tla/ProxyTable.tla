----------------------------- MODULE ProxyTable -----------------------------
(***************************************************************************)
(* What a client process knows of the other clients: a vector of public    *)
(* ids (m_ClientProxyIds) and a map from ids to ClientProxy objects        *)
(* (m_PublicIdClientProxyMap).  Proxies are numbered as they are made; 0   *)
(* is the null pointer.                                                    *)
(***************************************************************************)
EXTENDS Naturals, Sequences, FiniteSets, Functions

CONSTANT Ids

VARIABLES proxyIds,   \* m_ClientProxyIds
          proxyMap,   \* m_PublicIdClientProxyMap
          made,       \* how many proxies have been made
          freed       \* freed[x]: how often proxy x has been deleted

proxyVars == <<proxyIds, proxyMap, made, freed>>

NullProxy == 0

ProxyInit ==
  /\ proxyIds = <<>> /\ proxyMap = [i \in Ids |-> NullProxy]
  /\ made = 0 /\ freed = <<>>

\* delete of a null pointer does nothing.
Deleted(count, x) == IF x = NullProxy THEN count ELSE [count EXCEPT ![x] = @ + 1]

AddClientProxy(id) ==
  /\ made' = made + 1
  /\ proxyMap' = [proxyMap EXCEPT ![id] = made + 1]
  /\ proxyIds' = Append(proxyIds, id)
  /\ freed' = Append(freed, 0)

\* Mutants: the entry of the map is kept; the entry of the vector is kept.
RemoveKeepsMap(id) ==
  /\ freed' = Deleted(freed, proxyMap[id])
  /\ proxyIds' = SelectSeq(proxyIds, LAMBDA x : x # id)
  /\ UNCHANGED <<made, proxyMap>>

RemoveKeepsId(id) ==
  /\ freed' = Deleted(freed, proxyMap[id])
  /\ proxyMap' = [proxyMap EXCEPT ![id] = NullProxy]
  /\ UNCHANGED <<made, proxyIds>>

\* The first entry with this id is found, its proxy deleted, and the last entry
\* moved into its place.
RemoveClientProxy(id) ==
  IF id \notin Range(proxyIds)
  THEN UNCHANGED proxyVars
  ELSE LET i    == CHOOSE i \in DOMAIN proxyIds :
                     proxyIds[i] = id /\ \A j \in 1 .. i - 1 : proxyIds[j] # id
           back == Len(proxyIds)
       IN /\ freed' = Deleted(freed, proxyMap[id])
          /\ proxyMap' = [proxyMap EXCEPT ![id] = NullProxy]
          /\ proxyIds' = SubSeq([proxyIds EXCEPT ![i] = proxyIds[back]], 1, back - 1)
          /\ UNCHANGED made

\* ~NetworkControl deletes, for every entry of the vector, what the map has.
DeleteProxies ==
  /\ freed' = [x \in 1 .. made |->
                 freed[x] + Cardinality({i \in DOMAIN proxyIds : proxyMap[proxyIds[i]] = x})]
  /\ UNCHANGED <<proxyIds, proxyMap, made>>
=============================================================================
