----------------------------- MODULE OpenArtLine -----------------------------
(***************************************************************************)
(* How a line of the OpenART camera becomes the string cmd_parse reads     *)
(* (openart_callback, ctrl_openart.cpp): the UART3 interrupt puts each     *)
(* byte into the array data and, at the newline, a terminating NUL.  The   *)
(* array is never cleared, and its last place takes every byte of a line   *)
(* that is too long.                                                       *)
(*                                                                         *)
(* A byte is <<line, position>>: which of the sender's lines it belongs to *)
(* and where in that line it stands.  Bytes and newlines may be lost: the  *)
(* camera may be talking when the car is switched on, and the receiver     *)
(* overruns while interrupts are masked.                                   *)
(***************************************************************************)
EXTENDS Integers, Sequences

CONSTANTS
  MaxLen,   \* ONE_DATA_MAXLEN, 50 in the code
  Lines,    \* the sender numbers its lines 0, 1, .. up to here and around
  LineLens, \* bound: how many bytes a line may have before its newline
  MaxHeard  \* bound: no newline is lost once more bytes than this arrived

ASSUME MaxLenAssumption == MaxLen \in Nat \ {0}
ASSUME SenderAssumption ==
  Lines \in Nat \ {0} /\ LineLens \subseteq Nat /\ MaxHeard \in Nat

VARIABLES
  line, len, pos,  \* the sender: its line, its length, the bytes sent
  data,            \* data[], and the byte of memory behind it
  i,               \* the static index of openart_callback
  heard,           \* history: what arrived since the last newline did
  clean            \* history: and nothing was lost since

sender == <<line, len, pos>>
linkVars == <<sender, data, i, heard, clean>>

(* Array are the places of data[].  Behind it lies one more byte, which    *)
(* the NUL of a line that fills the array is written to: C leaves open     *)
(* what becomes of it, in the repository's build it is padding             *)
(* (RT106X.map:322 gives data 0x34 bytes) and sscanf reads it back.        *)
Nul == <<>>
Array == 0 .. MaxLen - 1
Places == 0 .. MaxLen
Bytes == (0 .. Lines - 1) \X Nat

LinkTypeOK ==
  /\ line \in 0 .. Lines - 1
  /\ len \in LineLens
  /\ pos \in 0 .. len
  /\ data \in [Places -> Bytes \cup {Nul}]
  /\ i \in Places
  /\ heard \in Seq(Bytes)
  /\ clean \in BOOLEAN

LinkInit ==
  /\ line = 0 /\ len \in LineLens /\ pos \in 0 .. len
  /\ data = [p \in Places |-> Nul]
  /\ i = 0
  /\ heard = <<>>
  /\ clean = (pos = 0)

(* The C string in the array d.                                            *)
String(d) ==
  LET end == CHOOSE p \in Places :
               d[p] = Nul /\ \A q \in 0 .. p - 1 : d[q] # Nul
  IN  [p \in 1 .. end |-> d[p - 1]]

-----------------------------------------------------------------------------
(* Bugs: the newline ends the string without a NUL; the index outlives the *)
(* line.                                                                   *)
EndsWithoutNul == data
RestartLate == i

Limit(k) == IF k >= MaxLen - 1 THEN MaxLen - 1 ELSE k
Ends == [data EXCEPT ![i] = Nul]
Restart == 0

(* openart_callback on any other byte.                                     *)
TakeByte ==
  /\ pos < len
  /\ pos' = pos + 1
  /\ data' = [data EXCEPT ![Limit(i)] = <<line, pos>>]
  /\ i' = Limit(i) + 1
  /\ heard' = Append(heard, <<line, pos>>)
  /\ UNCHANGED <<line, len, clean>>

NextLine ==
  /\ line' = (line + 1) % Lines
  /\ len' \in LineLens
  /\ pos' = 0

(* openart_callback on a newline; cmd_parse then reads String(data').      *)
TakeNewline ==
  /\ pos = len
  /\ data' = Ends
  /\ i' = Restart
  /\ heard' = <<>>
  /\ clean' = TRUE
  /\ NextLine

LoseByte ==
  /\ pos < len
  /\ pos' = pos + 1
  /\ clean' = FALSE
  /\ UNCHANGED <<line, len, data, i, heard>>

LoseNewline ==
  /\ pos = len
  /\ Len(heard) <= MaxHeard
  /\ clean' = FALSE
  /\ NextLine
  /\ UNCHANGED <<data, i, heard>>

LinkNext == TakeByte \/ TakeNewline \/ LoseByte \/ LoseNewline

LinkSpec == LinkInit /\ [][LinkNext]_linkVars

-----------------------------------------------------------------------------
(* Properties.                                                             *)

(* A line that arrives whole, begun after a newline that arrived, and that *)
(* fits is parsed whole and alone, whatever was received or lost before:   *)
(* nothing of an earlier, longer line in data reaches sscanf.              *)
WholeLineParsed ==
  [][TakeNewline /\ clean /\ len <= MaxLen =>
       String(data') = [p \in 1 .. len |-> <<line, p - 1>>]]_linkVars

(* Of any line, spliced or too long, cmd_parse gets what arrived since the *)
(* last newline did, cut in the array's last place: the number at the      *)
(* start of a long line survives, and only the bytes after it are lost.    *)
BeginningParsed ==
  [][TakeNewline =>
       /\ Len(String(data')) =
            IF Len(heard) < MaxLen THEN Len(heard) ELSE MaxLen
       /\ \A p \in 1 .. Len(String(data')) :
            p < MaxLen => String(data')[p] = heard[p]]_linkVars

(* What the declaration of data[] asks for: the NUL of the newline is       *)
(* written into the array.  (The bytes are, by the limit of the index.)     *)
WritesInArray == [][TakeNewline => i \in Array]_linkVars
=============================================================================
