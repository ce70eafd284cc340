----------------------------- MODULE MessageLife ----------------------------
(***************************************************************************)
(* What the actors together promise about the send_message frames: a       *)
(* message is handed to storage or refused, never both and never twice;    *)
(* what was handed over becomes at most one row, and rows are only added;  *)
(* the sender and the recipient are each told at most once, and not before *)
(* the hand-over; nothing happens once the server has halted.              *)
(***************************************************************************)
EXTENDS Sequences

CONSTANTS Id, Notice

VARIABLES read, handed, refused, rows, told, halted

Init ==
  /\ read = {} /\ handed = {} /\ refused = {}
  /\ rows = <<>> /\ told = {} /\ halted = FALSE

(* A frame is read; it may be refused at once. *)
Read(i) ==
  /\ i \notin read
  /\ read' = read \cup {i}
  /\ refused' = refused \/ refused' = refused \cup {i}
  /\ UNCHANGED <<handed, rows, told, halted>>

HandOver(i) ==
  /\ i \in read /\ i \notin handed /\ i \notin refused
  /\ handed' = handed \cup {i}
  /\ UNCHANGED <<read, refused, rows, told, halted>>

Refuse(i) ==
  /\ i \in read /\ i \notin handed /\ i \notin refused
  /\ refused' = refused \cup {i}
  /\ UNCHANGED <<read, handed, rows, told, halted>>

(* The row is there; the server may halt as it does not know of it. *)
Store(i) ==
  /\ i \in handed
  /\ \A j \in DOMAIN rows : rows[j] # i
  /\ rows' = Append(rows, i)
  /\ halted' \in BOOLEAN
  /\ UNCHANGED <<read, handed, refused, told>>

Tell(i, k) ==
  /\ i \in handed \/ i \in refused
  /\ <<i, k>> \notin told
  /\ told' = told \cup {<<i, k>>}
  /\ UNCHANGED <<read, handed, refused, rows, halted>>

Halt ==
  /\ halted' = TRUE
  /\ UNCHANGED <<read, handed, refused, rows, told>>

Next ==
  /\ ~halted
  /\ \/ \E i \in Id : Read(i) \/ HandOver(i) \/ Refuse(i) \/ Store(i)
     \/ \E i \in Id, k \in Notice : Tell(i, k)
     \/ Halt

Spec == Init /\ [][Next]_<<read, handed, refused, rows, told, halted>>
============================================================================
