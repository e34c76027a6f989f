---------------------------- MODULE OpCodeTable ----------------------------
(***************************************************************************)
(* OpCodeHandler: the functions linked to operation codes and the data     *)
(* they are called with.  The first Internal codes are the library's; a    *)
(* user's code is shifted past them, in sixteen-bit arithmetic, which is   *)
(* also the test of whether it fits.                                       *)
(*                                                                         *)
(* m_OpCodes and m_ClientData have USHRT_MAX = Word - 1 elements and lie   *)
(* one behind the other: `cells' is the object with the one cell behind it *)
(* that an index of Word - 1 can reach.                                    *)
(***************************************************************************)
EXTENDS Naturals

CONSTANTS Word,       \* 2^16
          Internal,   \* 256
          None        \* a null pointer

ASSUME TableAssumption ==
  Word \in Nat /\ Internal \in Nat /\ 3 < Internal /\ Internal + 1 < Word

VARIABLE cells

OpCodes     == 0 .. Word - 1              \* unsigned short
DataStart   == Word - 1                   \* where m_ClientData begins
Behind      == 2 * (Word - 1)             \* the cell behind the object
Cells       == 0 .. Behind

TableInit == cells = [i \in Cells |-> None]

\* (unsigned short)( codeNumber + 256 ) < 256 is refused.
Accepts(c) == (c + Internal) % Word >= Internal

\* Packet::SetOpCode: the code on the wire; a refused one leaves it 0.
OpCodeOf(c) == IF Accepts(c) THEN c + Internal ELSE 0

\* Mutant: the code is shifted and cast, not tested.
LinkUntested(c, fun, data) ==
  cells' = [cells EXCEPT ![(c + Internal) % Word] = fun,
                         ![DataStart + ((c + Internal) % Word)] = data]

LinkOpCodeFunction(c, fun, data) ==
  cells' = IF Accepts(c)
           THEN [cells EXCEPT ![c + Internal] = fun,
                              ![DataStart + c + Internal] = data]
           ELSE cells

SetClientData(c, data) ==
  cells' = IF Accepts(c) THEN [cells EXCEPT ![DataStart + c + Internal] = data] ELSE cells

\* LinkOpCodeFunctionInternal, for ReceiveID, AddRemoteClient and
\* RemoveRemoteClient.
GET_ID        == 1
ADD_CLIENT    == 2
REMOVE_CLIENT == 3
Library(code) == <<"library", code>>

LinkClientFunctions ==
  cells' = [i \in Cells |-> IF i \in {GET_ID, ADD_CLIENT, REMOVE_CLIENT}
                            THEN Library(i) ELSE cells[i]]

\* CallOpCodeFunction: what a packet with this operation code is handled by.
FunctionOf(op) == cells[op]
DataOf(op)     == cells[DataStart + op]
=============================================================================
