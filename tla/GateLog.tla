------------------------------ MODULE GateLog ------------------------------
(***************************************************************************)
(* append_gate_log at the level of write(2).  writeln! on an unbuffered    *)
(* File hands the row to the kernel piece by piece; O_APPEND puts every    *)
(* piece at the end of the file as it is then.  log_lock is a field of the *)
(* Client: it orders the threads of one client.  Clients, of one process   *)
(* or of several, share only the file.                                     *)
(***************************************************************************)
EXTENDS Integers, Sequences, FiniteSets

CONSTANTS
  Threads,
  ClientOf,    \* thread -> the client it calls
  ProcessOf,   \* client -> the process it lives in
  Pieces,      \* writes per row; the last one ends the line
  NoThread

ASSUME PiecesAssumption == Pieces \in Nat \ {0}
ASSUME NoThreadAssumption == NoThread \notin Threads

Clients == {ClientOf[t] : t \in Threads}
Processes == {ProcessOf[c] : c \in Clients}
RunsIn(t) == ProcessOf[ClientOf[t]]

VARIABLES
  file,     \* the pieces in the file: [row, part]
  lock,     \* client -> the thread that holds its log_lock
  state,    \* thread -> "idle", "open", "recorded", "failed", "killed"
  part      \* thread -> the last piece it has written

vars == <<file, lock, state, part>>

Init ==
  /\ file = <<>>
  /\ lock = [c \in Clients |-> NoThread]
  /\ state = [t \in Threads |-> "idle"]
  /\ part = [t \in Threads |-> 0]

(* Mutant: the lock is taken by everybody at once.                         *)
OpenUnlocked(t) ==
  /\ state[t] = "idle"
  /\ lock' = [lock EXCEPT ![ClientOf[t]] = t]
  /\ state' = [state EXCEPT ![t] = "open"]
  /\ UNCHANGED <<file, part>>

Open(t) ==
  /\ state[t] = "idle"
  /\ lock[ClientOf[t]] = NoThread
  /\ lock' = [lock EXCEPT ![ClientOf[t]] = t]
  /\ state' = [state EXCEPT ![t] = "open"]
  /\ UNCHANGED <<file, part>>

(* Mutant: a row may run past its last piece.                              *)
WriteBeyond(t) ==
  /\ state[t] = "open"
  /\ part[t] <= Pieces
  /\ part' = [part EXCEPT ![t] = @ + 1]
  /\ file' = Append(file, [row |-> t, part |-> part'[t]])
  /\ UNCHANGED <<lock, state>>

Write(t) ==
  /\ state[t] = "open"
  /\ part[t] < Pieces
  /\ part' = [part EXCEPT ![t] = @ + 1]
  /\ file' = Append(file, [row |-> t, part |-> part'[t]])
  /\ UNCHANGED <<lock, state>>

Release(t, outcome) ==
  /\ lock' = [lock EXCEPT ![ClientOf[t]] = NoThread]
  /\ state' = [state EXCEPT ![t] = outcome]
  /\ UNCHANGED <<file, part>>

(* Mutant: the call reports its row after the first write.                 *)
RecordedEarly(t) ==
  /\ state[t] = "open"
  /\ part[t] >= 1
  /\ Release(t, "recorded")

Recorded(t) ==
  /\ state[t] = "open"
  /\ part[t] = Pieces
  /\ Release(t, "recorded")

(* open or a write fails; what was written stays, and the verdict becomes  *)
(* an escalation.                                                          *)
Fails(t) ==
  /\ state[t] = "open"
  /\ part[t] < Pieces
  /\ Release(t, "failed")

(* The process ends in the middle of whatever its threads do.              *)
Killed(p) ==
  /\ \E t \in Threads : RunsIn(t) = p /\ state[t] \in {"idle", "open"}
  /\ state' = [t \in Threads |->
                 IF RunsIn(t) = p /\ state[t] \in {"idle", "open"}
                   THEN "killed" ELSE state[t]]
  /\ UNCHANGED <<file, lock, part>>

Next ==
  \/ \E t \in Threads : Open(t) \/ Write(t) \/ Recorded(t) \/ Fails(t)
  \/ \E p \in Processes : Killed(p)

Spec == Init /\ [][Next]_vars

-----------------------------------------------------------------------------
(* Correctness.                                                            *)

TypeOK ==
  /\ file \in Seq([row : Threads, part : 1 .. Pieces])
  /\ lock \in [Clients -> Threads \cup {NoThread}]
  /\ state \in [Threads -> {"idle", "open", "recorded", "failed", "killed"}]
  /\ part \in [Threads -> 0 .. Pieces]

Gone(t) == state[t] \in {"failed", "killed"}

(* Threads of one client never mix their rows, whoever else writes: behind *)
(* a piece of one stands a piece of another only when the first has        *)
(* written its whole row, or was broken off and writes no more.            *)
RowsDoNotMix ==
  \A i, j \in 1 .. Len(file) :
    LET first == file[i].row
        other == file[j].row
    IN  (i < j /\ first # other /\ ClientOf[first] = ClientOf[other]) =>
          /\ part[first] = Pieces \/ Gone(first)
          /\ \A k \in j .. Len(file) : file[k].row # first

(* A row that was reported as recorded is in the file, each piece once and *)
(* one behind the other, whatever is written between them and whoever is   *)
(* killed (append_gate_log has returned Ok).                               *)
RecordedRowsAreThere ==
  \A t \in Threads : state[t] = "recorded" =>
    /\ \A i \in 1 .. Pieces : \E k \in 1 .. Len(file) :
         file[k] = [row |-> t, part |-> i]
    /\ \A k, l \in 1 .. Len(file) :
         (k < l /\ file[k].row = t /\ file[l].row = t)
           => file[k].part < file[l].part

=============================================================================
