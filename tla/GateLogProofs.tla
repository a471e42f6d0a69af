--------------------------- MODULE GateLogProofs ---------------------------
(***************************************************************************)
(* log_lock keeps the rows of one client apart, for any number of threads, *)
(* clients, processes and writes per row, whichever fail or are killed;    *)
(* and a row that was reported is in the file, whatever others write.      *)
(***************************************************************************)
EXTENDS GateLog, SequenceTheorems, TLAPS

(* Every piece of the file is a thread's.                                  *)
LEMMA FileTyped ==
  ASSUME TypeOK
  PROVE  /\ Len(file) \in Nat
         /\ \A i \in 1 .. Len(file) :
              file[i].row \in Threads /\ file[i].part \in 1 .. Pieces
         /\ file # <<>> => Len(file) \in 1 .. Len(file)
<1>1. file \in Seq([row : Threads, part : 1 .. Pieces])
  BY DEF TypeOK
<1>2. \A i \in 1 .. Len(file) : file[i] \in [row : Threads, part : 1 .. Pieces]
  BY <1>1, ElementOfSeq
<1>3. Len(file) \in Nat /\ (file # <<>> => Len(file) \in 1 .. Len(file))
  BY <1>1
<1> QED BY <1>2, <1>3

-----------------------------------------------------------------------------
(* The pieces of each thread stand in the order of their parts, and those  *)
(* it has counted are there.                                               *)
Ordered ==
  \A k, l \in 1 .. Len(file) :
    (k < l /\ file[k].row = file[l].row) => file[k].part < file[l].part
Counted ==
  \A k \in 1 .. Len(file) : file[k].part <= part[file[k].row]
Placed ==
  \A t \in Threads : \A i \in 1 .. part[t] : \E k \in 1 .. Len(file) :
    file[k] = [row |-> t, part |-> i]
Whole == \A t \in Threads : state[t] = "recorded" => part[t] = Pieces
FileInv == TypeOK /\ Ordered /\ Counted /\ Placed /\ Whole

(* Steps that write nothing.                                               *)
LEMMA QuietKeepsFileInv ==
  ASSUME FileInv, TypeOK', file' = file, part' = part,
         \A t \in Threads :
           state[t]' = "recorded" => state[t] = "recorded" \/ part[t] = Pieces
  PROVE  FileInv'
BY DEF FileInv, Ordered, Counted, Placed, Whole

LEMMA OtherStepsKeepFileInv ==
  ASSUME FileInv,
         \/ \E t \in Threads : Open(t) \/ Recorded(t) \/ Fails(t)
         \/ \E p \in Processes : Killed(p)
         \/ UNCHANGED vars
  PROVE  FileInv'
<1>1. ASSUME NEW t \in Threads, Open(t) PROVE FileInv'
  <2>1. /\ state' = [state EXCEPT ![t] = "open"]
        /\ lock' = [lock EXCEPT ![ClientOf[t]] = t]
        /\ file' = file /\ part' = part
    BY <1>1 DEF Open
  <2>2. TypeOK'
    BY <2>1 DEF FileInv, TypeOK
  <2>3. \A u \in Threads : state[u]' = "recorded" => state[u] = "recorded"
    BY <2>1 DEF FileInv, TypeOK
  <2> QED BY <2>1, <2>2, <2>3, QuietKeepsFileInv
<1>2. ASSUME NEW t \in Threads, Recorded(t) \/ Fails(t) PROVE FileInv'
  <2>1. PICK outcome \in {"recorded", "failed"} :
          /\ state' = [state EXCEPT ![t] = outcome]
          /\ lock' = [lock EXCEPT ![ClientOf[t]] = NoThread]
          /\ file' = file /\ part' = part
          /\ outcome = "recorded" => part[t] = Pieces
    BY <1>2 DEF Recorded, Fails, Release
  <2>2. TypeOK'
    BY <2>1 DEF FileInv, TypeOK
  <2>3. \A u \in Threads :
          state[u]' = "recorded" => state[u] = "recorded" \/ part[u] = Pieces
    BY <2>1 DEF FileInv, TypeOK
  <2> QED BY <2>1, <2>2, <2>3, QuietKeepsFileInv
<1>3. ASSUME NEW p \in Processes, Killed(p) PROVE FileInv'
  <2>1. /\ state' = [t \in Threads |->
                       IF RunsIn(t) = p /\ state[t] \in {"idle", "open"}
                         THEN "killed" ELSE state[t]]
        /\ file' = file /\ lock' = lock /\ part' = part
    BY <1>3 DEF Killed
  <2>2. TypeOK'
    BY <2>1 DEF FileInv, TypeOK
  <2>3. \A u \in Threads : state[u]' = "recorded" => state[u] = "recorded"
    BY <2>1
  <2> QED BY <2>1, <2>2, <2>3, QuietKeepsFileInv
<1>4. ASSUME UNCHANGED vars PROVE FileInv'
  BY <1>4 DEF vars, FileInv, TypeOK, Ordered, Counted, Placed, Whole
<1> QED BY <1>1, <1>2, <1>3, <1>4

(* A piece goes behind all those of its row, and is counted.               *)
LEMMA WriteKeepsFileInv ==
  ASSUME FileInv, NEW t \in Threads, Write(t)
  PROVE  FileInv'
<1> DEFINE piece == [row |-> t, part |-> part[t] + 1]
<1>1. /\ file \in Seq([row : Threads, part : 1 .. Pieces])
      /\ piece \in [row : Threads, part : 1 .. Pieces]
      /\ file' = Append(file, piece)
      /\ part' = [part EXCEPT ![t] = part[t] + 1]
      /\ state' = state /\ lock' = lock
      /\ state[t] = "open"
      /\ part[t] \in 0 .. Pieces - 1
      /\ part \in [Threads -> 0 .. Pieces]
  BY PiecesAssumption DEF FileInv, TypeOK, Write
<1>2. /\ file' \in Seq([row : Threads, part : 1 .. Pieces])
      /\ Len(file) \in Nat
      /\ Len(file') = Len(file) + 1
      /\ file'[Len(file) + 1] = piece
      /\ \A k \in 1 .. Len(file) : file'[k] = file[k]
  BY <1>1
<1>3. \A k \in 1 .. Len(file) :
        file[k].row \in Threads /\ file[k].part \in 1 .. Pieces
  BY FileTyped DEF FileInv
<1>4. \A u \in Threads : part'[u] = IF u = t THEN part[u] + 1 ELSE part[u]
  BY <1>1
<1>5. TypeOK'
  BY <1>1, <1>2 DEF FileInv, TypeOK
<1>6. Ordered'
  <2> SUFFICES ASSUME NEW k \in 1 .. Len(file) + 1, NEW l \in 1 .. Len(file) + 1,
                      k < l, file'[k].row = file'[l].row
               PROVE  file'[k].part < file'[l].part
    BY <1>2 DEF Ordered
  <2>1. k \in 1 .. Len(file) /\ file'[k] = file[k]
    BY <1>2
  <2>2. CASE l \in 1 .. Len(file)
    BY <1>2, <2>1, <2>2 DEF FileInv, Ordered
  <2>3. CASE l = Len(file) + 1
    <3>1. file[k].part <= part[t]
      BY <1>2, <2>1, <2>3 DEF FileInv, Counted
    <3>2. file'[l].part = part[t] + 1
      BY <1>2, <2>3
    <3>3. file'[k].part = file[k].part
      BY <2>1
    <3>4. file[k].part \in Int /\ part[t] \in Int
      BY <1>1, <1>3, <2>1
    <3> QED BY <3>1, <3>2, <3>3, <3>4
  <2>4. l \in 1 .. Len(file) \/ l = Len(file) + 1
    BY <1>2
  <2> QED BY <2>2, <2>3, <2>4
<1>7. Counted'
  <2> SUFFICES ASSUME NEW k \in 1 .. Len(file) + 1
               PROVE  file'[k].part <= part'[file'[k].row]
    BY <1>2 DEF Counted
  <2>1. CASE k \in 1 .. Len(file)
    <3>1. file[k].part <= part[file[k].row]
      BY <2>1 DEF FileInv, Counted
    <3>2. /\ part[file[k].row] \in Nat
          /\ part[file[k].row] <= part'[file[k].row]
      BY <1>1, <1>3, <1>4, <2>1
    <3> QED BY <1>1, <1>2, <1>3, <1>4, <2>1, <3>1, <3>2
  <2>2. CASE k = Len(file) + 1
    BY <1>2, <1>4, <2>2
  <2> QED BY <1>2, <2>1, <2>2
<1>8. Placed'
  <2> SUFFICES ASSUME NEW u \in Threads, NEW i \in 1 .. part'[u]
               PROVE  \E k \in 1 .. Len(file) + 1 :
                        file'[k] = [row |-> u, part |-> i]
    BY <1>2 DEF Placed
  <2>1. CASE i \in 1 .. part[u]
    <3>1. PICK k \in 1 .. Len(file) : file[k] = [row |-> u, part |-> i]
      BY <2>1 DEF FileInv, Placed
    <3> QED BY <1>2, <3>1
  <2>2. CASE i \notin 1 .. part[u]
    <3>1. u = t /\ i = part[t] + 1
      BY <1>1, <1>4, <2>2
    <3> QED BY <1>2, <3>1
  <2> QED BY <2>1, <2>2
<1>9. Whole'
  BY <1>1, <1>4 DEF FileInv, Whole
<1> QED BY <1>5, <1>6, <1>7, <1>8, <1>9 DEF FileInv

LEMMA FileInvariance == Spec => []FileInv
<1>1. Init => FileInv
  BY PiecesAssumption
     DEF Init, FileInv, TypeOK, Ordered, Counted, Placed, Whole, Clients
<1>2. FileInv /\ [Next]_vars => FileInv'
  BY WriteKeepsFileInv, OtherStepsKeepFileInv DEF Next
<1> QED BY <1>1, <1>2, PTL DEF Spec

(* Every state of the log has its type, whatever shares the file.          *)
THEOREM TypeCorrect == Spec => []TypeOK
<1>1. FileInv => TypeOK
  BY DEF FileInv
<1> QED BY <1>1, FileInvariance, PTL

(* An append that returned Ok has its whole row in the file, in order, for *)
(* any number of processes that write in between, fail or are killed.      *)
THEOREM RecordedThere == Spec => []RecordedRowsAreThere
<1>1. FileInv => RecordedRowsAreThere
  BY DEF FileInv, Ordered, Placed, Whole, RecordedRowsAreThere
<1> QED BY <1>1, FileInvariance, PTL

-----------------------------------------------------------------------------
(* The lock.  It names the open thread of its client; a killed one may     *)
(* take it along.  Who has not begun has written nothing.                  *)
Holds == \A t \in Threads : state[t] = "open" => lock[ClientOf[t]] = t
Unbegun == \A t \in Threads : state[t] = "idle" => part[t] = 0
Inv == FileInv /\ Holds /\ Unbegun /\ RowsDoNotMix

LEMMA InitInv == Init => Inv
BY PiecesAssumption
   DEF Init, Inv, FileInv, TypeOK, Ordered, Counted, Placed, Whole, Clients,
       Holds, Unbegun, RowsDoNotMix

(* Of the threads of a client one is open.                                 *)
LEMMA OpenAlone ==
  ASSUME Holds, NEW t \in Threads, NEW u \in Threads,
         state[t] = "open", state[u] = "open", ClientOf[t] = ClientOf[u]
  PROVE  t = u
BY DEF Holds

(* While the file stays, and who is gone is gone, rows do not mix anew.    *)
LEMMA SameFileStaysApart ==
  ASSUME Inv, file' = file, part' = part, \A u \in Threads : Gone(u) => Gone(u)'
  PROVE  RowsDoNotMix'
<1> SUFFICES ASSUME NEW i \in 1 .. Len(file), NEW j \in 1 .. Len(file),
                    i < j, file[i].row # file[j].row,
                    ClientOf[file[i].row] = ClientOf[file[j].row]
             PROVE  /\ part[file[i].row] = Pieces \/ Gone(file[i].row)'
                    /\ \A k \in j .. Len(file) : file[k].row # file[i].row
  BY DEF RowsDoNotMix, Gone
<1>1. file[i].row \in Threads
  BY FileTyped DEF Inv, FileInv
<1>2. /\ part[file[i].row] = Pieces \/ Gone(file[i].row)
      /\ \A k \in j .. Len(file) : file[k].row # file[i].row
  BY DEF Inv, RowsDoNotMix
<1> QED BY <1>1, <1>2

LEMMA OpenKeepsInv ==
  ASSUME Inv, NEW t \in Threads, Open(t)
  PROVE  Inv'
<1>1. /\ state' = [state EXCEPT ![t] = "open"]
      /\ lock' = [lock EXCEPT ![ClientOf[t]] = t]
      /\ lock[ClientOf[t]] = NoThread /\ state[t] = "idle"
      /\ file' = file /\ part' = part
  BY DEF Open
<1>2. ClientOf[t] \in Clients /\ \A u \in Threads : ClientOf[u] \in Clients
  BY DEF Clients
<1>3. \A u \in Threads : state[u] = "open" => ClientOf[u] # ClientOf[t]
  BY <1>1, NoThreadAssumption DEF Inv, Holds
<1>4. Holds'
  BY <1>1, <1>2, <1>3 DEF Inv, FileInv, TypeOK, Holds
<1>5. Unbegun'
  BY <1>1 DEF Inv, FileInv, TypeOK, Unbegun
<1>6. \A u \in Threads : Gone(u) => Gone(u)'
  BY <1>1 DEF Inv, FileInv, TypeOK, Gone
<1>7. RowsDoNotMix'
  BY <1>1, <1>6, SameFileStaysApart
<1>8. FileInv'
  BY OtherStepsKeepFileInv DEF Inv
<1> QED BY <1>4, <1>5, <1>7, <1>8 DEF Inv

(* Who writes is alone at its client: whoever has written before has left  *)
(* the lock, its row being whole, or is gone.                              *)
LEMMA WriteKeepsInv ==
  ASSUME Inv, NEW t \in Threads, Write(t)
  PROVE  Inv'
<1> DEFINE piece == [row |-> t, part |-> part[t] + 1]
           n == Len(file)
<1>1. /\ file \in Seq([row : Threads, part : 1 .. Pieces])
      /\ piece \in [row : Threads, part : 1 .. Pieces]
      /\ file' = Append(file, piece)
      /\ part' = [part EXCEPT ![t] = part[t] + 1]
      /\ state' = state /\ lock' = lock
      /\ state[t] = "open"
      /\ part[t] \in 0 .. Pieces - 1
      /\ part \in [Threads -> 0 .. Pieces]
  BY PiecesAssumption DEF Inv, FileInv, TypeOK, Write
<1>2. /\ n \in Nat /\ Len(file') = n + 1
      /\ file'[n + 1] = piece
      /\ \A k \in 1 .. n : file'[k] = file[k]
  BY <1>1
<1>3. \A k \in 1 .. n : file[k].row \in Threads /\ file[k].part \in 1 .. Pieces
  BY FileTyped DEF Inv, FileInv
<1>4. \A u \in Threads : u # t => part'[u] = part[u]
  BY <1>1
<1>5. ~Gone(t) /\ part[t] # Pieces
  BY <1>1, PiecesAssumption DEF Gone
<1> HIDE DEF n
<1>6. ASSUME NEW i \in 1 .. n, file[i].row # t,
             ClientOf[file[i].row] = ClientOf[t]
      PROVE  part[file[i].row] = Pieces \/ Gone(file[i].row)
  <2> DEFINE u == file[i].row
  <2>1. u \in Threads /\ file[i].part >= 1 /\ file[i].part <= part[u]
    BY <1>3 DEF Inv, FileInv, Counted, n
  <2>2. state[u] # "open"
    BY <1>1, <1>6, <2>1, OpenAlone DEF Inv
  <2>3. state[u] # "idle"
    BY <1>1, <1>3, <2>1 DEF Inv, Unbegun
  <2>4. state[u] \in {"recorded", "failed", "killed"}
    BY <2>1, <2>2, <2>3 DEF Inv, FileInv, TypeOK
  <2> QED BY <2>1, <2>4 DEF Inv, FileInv, Whole, Gone
<1>7. ASSUME NEW i \in 1 .. n + 1, NEW j \in 1 .. n + 1, i < j,
             file'[i].row # file'[j].row,
             ClientOf[file'[i].row] = ClientOf[file'[j].row]
      PROVE  /\ \/ part'[file'[i].row] = Pieces
                \/ state'[file'[i].row] \in {"failed", "killed"}
             /\ \A k \in j .. n + 1 : file'[k].row # file'[i].row
  <2>1. i \in 1 .. n /\ file'[i] = file[i] /\ file[i].row \in Threads
    BY <1>2, <1>3, <1>7
  <2>2. CASE j = n + 1
    <3>1. file[i].row # t /\ ClientOf[file[i].row] = ClientOf[t]
      BY <1>2, <1>7, <2>1, <2>2
    <3>2. part[file[i].row] = Pieces \/ Gone(file[i].row)
      BY <1>6, <2>1, <3>1
    <3>3. part'[file[i].row] = part[file[i].row]
      BY <1>4, <2>1, <3>1
    <3>4. \A k \in j .. n + 1 : k = n + 1
      BY <1>2, <2>2
    <3>5. \A k \in j .. n + 1 : file'[k].row = t
      BY <1>2, <3>4
    <3>6. part'[file[i].row] = Pieces \/ state'[file[i].row] \in {"failed", "killed"}
      BY <1>1, <3>2, <3>3 DEF Gone
    <3> QED BY <2>1, <3>1, <3>5, <3>6
  <2>3. CASE j # n + 1
    <3>1. j \in 1 .. n /\ file'[j] = file[j]
      BY <1>2, <2>3
    <3>2. /\ part[file[i].row] = Pieces \/ Gone(file[i].row)
          /\ \A k \in j .. n : file[k].row # file[i].row
      BY <1>7, <2>1, <3>1 DEF Inv, RowsDoNotMix, n
    <3>3. file[i].row # t
      BY <1>5, <3>2
    <3>4. part'[file[i].row] = part[file[i].row]
      BY <1>4, <2>1, <3>3
    <3>5. ASSUME NEW k \in j .. n + 1 PROVE file'[k].row # file[i].row
      <4>1. CASE k = n + 1
        BY <1>2, <3>3, <4>1
      <4>2. CASE k # n + 1
        <5>1. k \in j .. n /\ k \in 1 .. n
          BY <1>2, <3>1, <4>2
        <5> QED BY <1>2, <3>2, <5>1
      <4> QED BY <4>1, <4>2
    <3> QED BY <1>1, <2>1, <3>2, <3>4, <3>5 DEF Gone
  <2> QED BY <2>2, <2>3
<1>8. RowsDoNotMix'
  BY <1>2, <1>7 DEF RowsDoNotMix, Gone
<1>9. FileInv'
  BY WriteKeepsFileInv DEF Inv
<1>10. Holds' /\ Unbegun'
  BY <1>1 DEF Inv, Holds, Unbegun
<1> QED BY <1>8, <1>9, <1>10 DEF Inv

(* The lock is left, the row being whole or broken off.                    *)
LEMMA ReleaseKeepsInv ==
  ASSUME Inv, NEW t \in Threads, Recorded(t) \/ Fails(t)
  PROVE  Inv'
<1>1. PICK outcome \in {"recorded", "failed"} :
        /\ state' = [state EXCEPT ![t] = outcome]
        /\ lock' = [lock EXCEPT ![ClientOf[t]] = NoThread]
        /\ file' = file /\ part' = part /\ state[t] = "open"
  BY DEF Recorded, Fails, Release
<1>2. \A u \in Threads : state'[u] = "open" =>
        state[u] = "open" /\ ClientOf[u] # ClientOf[t]
  BY <1>1, OpenAlone DEF Inv, FileInv, TypeOK
<1>3. ClientOf[t] \in Clients /\ \A u \in Threads : ClientOf[u] \in Clients
  BY DEF Clients
<1>4. Holds'
  BY <1>1, <1>2, <1>3 DEF Inv, FileInv, TypeOK, Holds
<1>5. Unbegun'
  BY <1>1 DEF Inv, FileInv, TypeOK, Unbegun
<1>6. \A u \in Threads : Gone(u) => Gone(u)'
  BY <1>1 DEF Inv, FileInv, TypeOK, Gone
<1>7. RowsDoNotMix'
  BY <1>1, <1>6, SameFileStaysApart
<1>8. FileInv'
  BY OtherStepsKeepFileInv DEF Inv
<1> QED BY <1>4, <1>5, <1>7, <1>8 DEF Inv

(* A process ends, and who was writing in it has broken off its row.       *)
LEMMA KilledKeepsInv ==
  ASSUME Inv, NEW p \in Processes, Killed(p)
  PROVE  Inv'
<1>1. /\ state' = [t \in Threads |->
                     IF RunsIn(t) = p /\ state[t] \in {"idle", "open"}
                       THEN "killed" ELSE state[t]]
      /\ file' = file /\ lock' = lock /\ part' = part
  BY DEF Killed
<1>2. \A u \in Threads : state'[u] \in {state[u], "killed"}
  BY <1>1
<1>3. \A u \in Threads : Gone(u) => Gone(u)'
  BY <1>2 DEF Gone
<1>4. Holds' /\ Unbegun'
  BY <1>1, <1>2 DEF Inv, Holds, Unbegun
<1>5. RowsDoNotMix'
  BY <1>1, <1>3, SameFileStaysApart
<1>6. FileInv'
  BY OtherStepsKeepFileInv DEF Inv
<1> QED BY <1>4, <1>5, <1>6 DEF Inv

(* The invariant holds for any threads of any clients in any processes.    *)
THEOREM Invariance == Spec => []Inv
<1>1. Inv /\ [Next]_vars => Inv'
  <2>1. ASSUME Inv, UNCHANGED vars PROVE Inv'
    <3>1. FileInv'
      BY <2>1, OtherStepsKeepFileInv DEF Inv
    <3>2. Holds' /\ Unbegun' /\ RowsDoNotMix'
      BY <2>1 DEF vars, Inv, Holds, Unbegun, RowsDoNotMix, Gone
    <3> QED BY <3>1, <3>2 DEF Inv
  <2> QED BY <2>1, OpenKeepsInv, WriteKeepsInv, ReleaseKeepsInv,
             KilledKeepsInv DEF Next
<1> QED BY <1>1, InitInv, PTL DEF Spec

(* log_lock keeps the rows of one client apart, whatever other clients,    *)
(* other processes and failures do: behind a piece of a row stands a piece *)
(* of another row of that client only when the first is whole, or broken   *)
(* off for good because its own writer failed or was killed.               *)
THEOREM RowsStayApart == Spec => []RowsDoNotMix
<1>1. Inv => RowsDoNotMix
  BY DEF Inv
<1> QED BY <1>1, Invariance, PTL

=============================================================================
