--------------------------- MODULE UsageRows_proofs ---------------------------
(***************************************************************************)
(* Proofs about UsageRows, for any number of requests, keys, rows,         *)
(* administrator operations and restarts.                                  *)
(*                                                                         *)
(* The id a stream remembers is all that ties it to its row.  The argument *)
(* is that the tie is only ever cut by a reset, which makes the stream an  *)
(* orphan (OwnRow), and that a row which says "started" is still tied to   *)
(* a stream whose background task is to come (Settling).  The totals of    *)
(* the usage page rest on a request inserting one row, into a free id, and *)
(* on updates keeping its key and account (Ledger).                        *)
(***************************************************************************)
EXTENDS UsageRows, FunctionTheorems, FiniteSetTheorems, TLAPS

(* The row a running stream remembers is its own unless it was reset. *)
OwnRow ==
  \A r \in Requests : Running(r) /\ r \notin orphaned
    => Exists(usageId[r]) /\ usage[usageId[r]].owner = r

(* The stream of a "started" row holds its id and has not finished its      *)
(* background task, unless a crash took it.                                 *)
Held(r, i) ==
  \/ pc[r] = "lost"
  \/ /\ Running(r) /\ usageId[r] = i
     /\ pc[r] = "ending" => background[r] # "done"

Settling ==
  \A i \in RowIds : Exists(i) /\ usage[i].started => Held(usage[i].owner, i)

(* "after" waits for the finish task, which has not ended. *)
AfterFinish ==
  \A r \in Requests : background[r] = "after" => finish[r] \in {"todo", "read"}

(* Only a stream that ended has a background task. *)
NotYet ==
  \A r \in Requests : pc[r] = "ending" => background[r] # "none"

IInv == TypeOK /\ OwnRow /\ Settling /\ AfterFinish /\ NotYet /\ OnlyOrphansIntrude

-------------------------------------------------------------------------------
LEMMA RowFacts ==
  ASSUME NEW row \in Rows, NEW r \in Requests
  PROVE  /\ row # NoRow
         /\ row.owner \in Requests /\ row.started \in BOOLEAN
         /\ [row EXCEPT !.started = FALSE, !.by = r] \in Rows
         /\ [row EXCEPT !.started = FALSE, !.by = r] # NoRow
         /\ [row EXCEPT !.started = FALSE, !.by = r].owner = row.owner
         /\ [row EXCEPT !.started = FALSE, !.by = r].started = FALSE
         /\ [row EXCEPT !.started = FALSE, !.by = r].by = r
BY NoRowAssumption DEF Rows

(* An update writes who and what it should, in the row it names and no other *)
LEMMA UpdateWrites ==
  ASSUME TypeOK, NEW r \in Requests, usageId[r] \in RowIds, Exists(usageId[r]),
         Update(r)
  PROVE  /\ usage' \in [RowIds -> Rows \cup {NoRow}]
         /\ \A i \in RowIds : i # usageId[r] => usage'[i] = usage[i]
         /\ usage'[usageId[r]] # NoRow
         /\ usage'[usageId[r]].owner = usage[usageId[r]].owner
         /\ usage'[usageId[r]].started = FALSE
         /\ usage'[usageId[r]].by = r
<1> DEFINE j == usageId[r]
<1>1. usage \in [RowIds -> Rows \cup {NoRow}] /\ j \in RowIds
  BY DEF TypeOK
<1>2. usage[j] \in Rows
  BY <1>1 DEF Exists
<1>3. usage' = [usage EXCEPT ![j] = [usage[j] EXCEPT !.started = FALSE, !.by = r]]
  BY DEF Update
<1> HIDE DEF j
<1>4. usage'[j] = [usage[j] EXCEPT !.started = FALSE, !.by = r]
  BY <1>1, <1>3
<1>5. QED
  BY <1>1, <1>2, <1>3, <1>4, RowFacts DEF j

(* The row an insert makes. *)
LEMMA InsertWrites ==
  ASSUME TypeOK, NEW r \in Requests, kid[r] \in KeyIds, NEW i \in RowIds,
         NEW a \in Accounts, NEW started \in BOOLEAN,
         NEW by \in Requests \cup {Nobody}, Insert(r, i, a, started, by)
  PROVE  /\ usage' \in [RowIds -> Rows \cup {NoRow}]
         /\ ~Exists(i) /\ usage'[i] # NoRow
         /\ \A j \in RowIds : j # i => usage'[j] = usage[j]
         /\ usage'[i].owner = r /\ usage'[i].started = started /\ usage'[i].by = by
         /\ counted' \subseteq [request : Requests, key : KeyIds, account : Accounts]
<1> DEFINE row == [key |-> kid[r], account |-> a, started |-> started,
                   owner |-> r, by |-> by]
<1>1. usage \in [RowIds -> Rows \cup {NoRow}]
      /\ counted \subseteq [request : Requests, key : KeyIds, account : Accounts]
  BY DEF TypeOK
<1>2. row \in Rows /\ row.owner = r /\ row.started = started /\ row.by = by
  BY DEF Rows
<1>3. /\ usage' = [usage EXCEPT ![i] = row]
      /\ counted' = counted \cup {[request |-> r, key |-> kid[r], account |-> a]}
  BY DEF Insert
<1>4. ~Exists(i)
  <2>1. i \in Nat
    BY RowsAssumption DEF RowIds
  <2>2. Exists(i) => i < i
    BY DEF Insert, NextRow
  <2>3. QED  BY <2>1, <2>2
<1> HIDE DEF row
<1>5. counted' \subseteq [request : Requests, key : KeyIds, account : Accounts]
  BY <1>1, <1>3
<1>6. row # NoRow
  BY <1>2, NoRowAssumption
<1>7. QED
  BY <1>1, <1>2, <1>3, <1>4, <1>5, <1>6

(* The rows a reset leaves are as they were. *)
LEMMA DeleteWrites ==
  ASSUME TypeOK, NEW ids \in SUBSET RowIds, Delete(ids)
  PROVE  /\ usage' \in [RowIds -> Rows \cup {NoRow}]
         /\ \A i \in RowIds : usage'[i] # NoRow => i \notin ids /\ usage'[i] = usage[i]
         /\ \A i \in RowIds : i \notin ids => usage'[i] = usage[i]
         /\ orphaned \subseteq orphaned' /\ orphaned' \subseteq Requests
         /\ \A r \in Requests, i \in ids : Running(r) /\ usage[i].owner = r
              => r \in orphaned'
BY DEF TypeOK, Delete

-------------------------------------------------------------------------------
LEMMA InitIInv == Init => IInv
<1> SUFFICES ASSUME Init PROVE IInv
  OBVIOUS
<1>1. \A i \in RowIds : ~Exists(i)
  BY DEF Init, Exists
<1>2. TypeOK
  BY RowsAssumption DEF Init, TypeOK, Running, KeyIds
<1>3. OwnRow /\ AfterFinish /\ NotYet
  BY DEF Init, OwnRow, AfterFinish, NotYet, Running
<1>4. Settling /\ OnlyOrphansIntrude
  BY <1>1 DEF Settling, OnlyOrphansIntrude
<1>5. QED
  BY <1>2, <1>3, <1>4 DEF IInv

(* A step of one of the two tasks that settle a row. *)
LEMMA EndedKeeps ==
  ASSUME IInv, NEW r \in Requests, pc[r] = "ending",
         NEW f \in {"none", "todo", "read", "done"},
         NEW b \in {"after", "todo", "read", "done"},
         Ended(r, f, b), b = "after" => f \in {"todo", "read"},
         usage' \in [RowIds -> Rows \cup {NoRow}],
         \A i \in RowIds : /\ (usage'[i] # NoRow) <=> Exists(i)
                           /\ Exists(i) => usage'[i].owner = usage[i].owner
                           /\ Exists(i) /\ usage'[i].started
                                => usage[i].started /\ (b = "done" => usage[i].owner # r),
         OnlyOrphansIntrude'
  PROVE  IInv'
<1>0. TypeOK /\ OwnRow /\ Settling /\ AfterFinish /\ NotYet
  BY DEF IInv
<1>1. /\ finish' = [finish EXCEPT ![r] = f] /\ background' = [background EXCEPT ![r] = b]
      /\ pc' = IF f \in {"none", "done"} /\ b = "done" THEN [pc EXCEPT ![r] = "done"] ELSE pc
      /\ UNCHANGED <<keys, kid, usageId, adminOps, crashes, orphaned, counted>>
  BY DEF Ended, boundVars
<1>2. /\ pc \in [Requests -> {"new", "known", "streaming", "ending", "done", "lost"}]
      /\ finish \in [Requests -> {"none", "todo", "read", "done"}]
      /\ background \in [Requests -> {"none", "after", "todo", "read", "done"}]
  BY <1>0 DEF TypeOK
<1>3. \A q \in Requests : /\ Running(q)' => Running(q)
                          /\ pc'[q] \in {"known", "lost"} <=> pc[q] \in {"known", "lost"}
                          /\ pc'[q] = "lost" <=> pc[q] = "lost"
                          /\ q # r => /\ pc'[q] = pc[q] /\ finish'[q] = finish[q]
                                      /\ background'[q] = background[q]
  BY <1>1, <1>2 DEF Running
<1>4. /\ finish'[r] = f /\ background'[r] = b
      /\ pc'[r] = IF f \in {"none", "done"} /\ b = "done" THEN "done" ELSE "ending"
  BY <1>1, <1>2
<1>5. TypeOK'
  <2>1. \A q \in Requests : pc'[q] # "ending" => /\ finish'[q] \notin {"todo", "read"}
                                                 /\ background'[q] \notin {"todo", "read"}
    BY <1>0, <1>3, <1>4 DEF TypeOK
  <2>2. \A q \in Requests : /\ pc'[q] = "known" => kid'[q] \in KeyIds
                            /\ Running(q)' => usageId'[q] \in RowIds
    <3>1. \A q \in Requests : /\ pc[q] = "known" => kid[q] \in KeyIds
                              /\ Running(q) => usageId[q] \in RowIds
      BY <1>0 DEF TypeOK
    <3>2. QED
      BY <3>1, <1>1, <1>3 DEF Running
  <2>3. pc' \in [Requests -> {"new", "known", "streaming", "ending", "done", "lost"}]
    BY <1>1, <1>2
  <2>4. /\ finish' \in [Requests -> {"none", "todo", "read", "done"}]
        /\ background' \in [Requests -> {"none", "after", "todo", "read", "done"}]
    BY <1>1, <1>2
  <2>5. QED
    BY <1>0, <2>1, <2>2, <2>3, <2>4, <1>1 DEF TypeOK
<1>6. OwnRow'
  <2> SUFFICES ASSUME NEW q \in Requests, Running(q)', q \notin orphaned'
               PROVE  usage'[usageId'[q]] # NoRow /\ usage'[usageId'[q]].owner = q
    BY DEF OwnRow, Exists
  <2>1. Running(q) /\ q \notin orphaned /\ usageId'[q] = usageId[q]
    BY <1>1, <1>3
  <2>2. usageId[q] \in RowIds
    BY <1>0, <2>1 DEF TypeOK, Running
  <2>3. Exists(usageId[q]) /\ usage[usageId[q]].owner = q
    BY <1>0, <2>1 DEF OwnRow
  <2>4. QED
    BY <2>1, <2>2, <2>3 DEF Exists
<1>7. Settling'
  <2> SUFFICES ASSUME NEW i \in RowIds, usage'[i] # NoRow, usage'[i].started
               PROVE  Held(usage[i].owner, i)'
    BY DEF Settling, Exists, Held, Running
  <2>1. /\ Exists(i) /\ usage[i].started /\ (b = "done" => usage[i].owner # r)
        /\ Held(usage[i].owner, i)
    BY <1>0 DEF Settling
  <2>2. usage[i].owner \in Requests
    <3>1. usage[i] \in Rows
      BY <1>0, <2>1 DEF TypeOK, Exists
    <3>2. QED  BY <3>1 DEF Rows
  <2>3. CASE usage[i].owner = r
    BY <2>1, <2>3, <1>1, <1>4 DEF Held, Running
  <2>4. CASE usage[i].owner # r
    BY <2>1, <2>2, <2>4, <1>1, <1>3 DEF Held, Running
  <2>5. QED  BY <2>3, <2>4
<1>8. AfterFinish' /\ NotYet'
  BY <1>0, <1>3, <1>4 DEF AfterFinish, NotYet
<1>9. QED
  BY <1>5, <1>6, <1>7, <1>8 DEF IInv

(* A step that leaves the table alone, and with it who holds which row. *)
LEMMA QuietKeeps ==
  ASSUME IInv, TypeOK', UNCHANGED <<usage, usageId, orphaned>>,
         \A q \in Requests :
           /\ Running(q)' => Running(q)
           /\ Running(q) => Running(q)' \/ pc'[q] = "lost"
           /\ pc[q] = "lost" => pc'[q] = "lost"
           /\ pc'[q] = "ending" => background'[q] \notin {"none", "done"} \/
                                     (pc[q] = "ending" /\ background'[q] = background[q])
           /\ background'[q] = "after" => finish'[q] \in {"todo", "read"}
  PROVE  IInv'
<1>0. TypeOK /\ OwnRow /\ Settling /\ AfterFinish /\ NotYet /\ OnlyOrphansIntrude
  BY DEF IInv
<1>1. OwnRow' /\ OnlyOrphansIntrude'
  BY <1>0 DEF OwnRow, OnlyOrphansIntrude, Exists
<1>2. Settling'
  <2> SUFFICES ASSUME NEW i \in RowIds, usage[i] # NoRow, usage[i].started
               PROVE  Held(usage[i].owner, i)'
    BY DEF Settling, Exists, Held, Running
  <2>1. Held(usage[i].owner, i)
    BY <1>0 DEF Settling, Exists
  <2>2. usage[i].owner \in Requests
    <3>1. usage[i] \in Rows
      BY <1>0 DEF TypeOK
    <3>2. QED  BY <3>1 DEF Rows
  <2>3. QED
    BY <2>1, <2>2 DEF Held
<1>3. AfterFinish' /\ NotYet'
  BY <1>0 DEF AfterFinish, NotYet
<1>4. QED
  BY <1>0, <1>1, <1>2, <1>3 DEF IInv

(* A request inserts its row; a stream starts to hold it. *)
LEMMA InsertKeeps ==
  ASSUME IInv, NEW r \in Requests, NEW i \in RowIds, NEW a \in Accounts,
         PlainEnds(r, i, a) \/ StreamStarts(r, i, a)
  PROVE  IInv'
<1>0. TypeOK /\ OwnRow /\ Settling /\ AfterFinish /\ NotYet /\ OnlyOrphansIntrude
  BY DEF IInv
<1>1. /\ pc[r] = "known" /\ kid[r] \in KeyIds
      /\ UNCHANGED <<keys, kid, finish, background, adminOps, crashes, orphaned>>
  BY <1>0 DEF PlainEnds, StreamStarts, TypeOK, boundVars
<1>2. \/ /\ Insert(r, i, a, FALSE, r)
         /\ pc' = [pc EXCEPT ![r] = "done"] /\ usageId' = usageId
      \/ /\ Insert(r, i, a, TRUE, Nobody)
         /\ pc' = [pc EXCEPT ![r] = "streaming"]
         /\ usageId' = [usageId EXCEPT ![r] = i]
  BY DEF PlainEnds, StreamStarts
<1>3. /\ usage' \in [RowIds -> Rows \cup {NoRow}]
      /\ ~Exists(i) /\ usage'[i] # NoRow
      /\ \A j \in RowIds : j # i => usage'[j] = usage[j]
      /\ usage'[i].owner = r /\ usage'[i].by \in {Nobody, r}
      /\ usage'[i].started => pc'[r] = "streaming" /\ usageId'[r] = i
      /\ counted' \subseteq [request : Requests, key : KeyIds, account : Accounts]
  <2>1. CASE Insert(r, i, a, FALSE, r)
    <3>1. /\ usage' \in [RowIds -> Rows \cup {NoRow}]
          /\ ~Exists(i) /\ usage'[i] # NoRow
          /\ \A j \in RowIds : j # i => usage'[j] = usage[j]
          /\ usage'[i].owner = r /\ usage'[i].started = FALSE /\ usage'[i].by = r
          /\ counted' \subseteq [request : Requests, key : KeyIds, account : Accounts]
      <4>1. r \in Requests \cup {Nobody}
        OBVIOUS
      <4>2. QED  BY <1>0, <1>1, <2>1, <4>1, InsertWrites
    <3>2. QED  BY <3>1
  <2>2. CASE Insert(r, i, a, TRUE, Nobody) /\ pc' = [pc EXCEPT ![r] = "streaming"]
              /\ usageId' = [usageId EXCEPT ![r] = i]
    <3>1. pc'[r] = "streaming" /\ usageId'[r] = i
      BY <2>2, <1>0 DEF TypeOK
    <3>2. /\ usage' \in [RowIds -> Rows \cup {NoRow}]
          /\ ~Exists(i) /\ usage'[i] # NoRow
          /\ \A j \in RowIds : j # i => usage'[j] = usage[j]
          /\ usage'[i].owner = r /\ usage'[i].started = TRUE /\ usage'[i].by = Nobody
          /\ counted' \subseteq [request : Requests, key : KeyIds, account : Accounts]
      BY <2>2, <1>0, <1>1, InsertWrites
    <3>3. QED
      BY <3>1, <3>2
  <2>3. QED  BY <1>2, <2>1, <2>2
<1>4. /\ pc' \in [Requests -> {"new", "known", "streaming", "ending", "done", "lost"}]
      /\ usageId' \in [Requests -> 0..MaxRow]
      /\ pc'[r] \in {"done", "streaming"}
      /\ pc'[r] = "streaming" => usageId'[r] = i
      /\ \A q \in Requests : q # r => pc'[q] = pc[q] /\ usageId'[q] = usageId[q]
  <2>1. /\ pc \in [Requests -> {"new", "known", "streaming", "ending", "done", "lost"}]
        /\ usageId \in [Requests -> 0..MaxRow] /\ i \in 0..MaxRow
    BY <1>0, RowsAssumption DEF TypeOK, RowIds
  <2>2. QED
    BY <2>1, <1>2
<1>5. TypeOK'
  <2>1. \A q \in Requests : /\ pc'[q] = "known" => kid'[q] \in KeyIds
                            /\ Running(q)' => usageId'[q] \in RowIds
    BY <1>0, <1>1, <1>4 DEF TypeOK, Running
  <2>2. \A q \in Requests : pc'[q] # "ending" => /\ finish'[q] \notin {"todo", "read"}
                                                 /\ background'[q] \notin {"todo", "read"}
    BY <1>0, <1>1, <1>4 DEF TypeOK
  <2>3. QED
    BY <1>0, <1>1, <1>3, <1>4, <2>1, <2>2 DEF TypeOK
<1>6. OwnRow'
  <2> SUFFICES ASSUME NEW q \in Requests, Running(q)', q \notin orphaned'
               PROVE  usage'[usageId'[q]] # NoRow /\ usage'[usageId'[q]].owner = q
    BY DEF OwnRow, Exists
  <2>1. CASE q = r
    BY <2>1, <1>3, <1>4 DEF Running
  <2>2. CASE q # r
    <3>1. Running(q) /\ q \notin orphaned /\ usageId'[q] = usageId[q]
      BY <2>2, <1>1, <1>4 DEF Running
    <3>2. /\ usageId[q] \in RowIds
          /\ Exists(usageId[q]) /\ usage[usageId[q]].owner = q
      BY <3>1, <1>0 DEF TypeOK, OwnRow, Running
    <3>3. QED  BY <3>1, <3>2, <1>3 DEF Exists
  <2>3. QED  BY <2>1, <2>2
<1>7. Settling'
  <2> SUFFICES ASSUME NEW j \in RowIds, usage'[j] # NoRow, usage'[j].started
               PROVE  Held(usage[j].owner, j)'
    BY DEF Settling, Exists, Held, Running
  <2>1. CASE j = i
    BY <2>1, <1>3 DEF Held, Running
  <2>2. CASE j # i
    <3>1. usage'[j] = usage[j]
      BY <2>2, <1>3
    <3>2. Held(usage[j].owner, j)
      BY <3>1, <1>0 DEF Settling, Exists
    <3>3. usage[j].owner \in Requests
      <4>1. usage[j] \in Rows
        BY <3>1, <1>0 DEF TypeOK
      <4>2. QED  BY <4>1 DEF Rows
    <3>4. usage[j].owner # r
      BY <3>2, <1>1 DEF Held, Running
    <3>5. QED
      BY <3>1, <3>2, <3>3, <3>4, <1>1, <1>4 DEF Held, Running
  <2>3. QED  BY <2>1, <2>2
<1>8. AfterFinish' /\ NotYet'
  BY <1>0, <1>1, <1>4 DEF AfterFinish, NotYet
<1>9. OnlyOrphansIntrude'
  BY <1>0, <1>1, <1>3 DEF OnlyOrphansIntrude, Exists
<1>10. QED
  BY <1>5, <1>6, <1>7, <1>8, <1>9 DEF IInv

(* A reset orphans the running streams whose rows it deletes. *)
LEMMA ResetKeeps ==
  ASSUME IInv, NEW ids \in SUBSET RowIds, Delete(ids), counted' \subseteq counted,
         adminOps' \in 0..MaxAdminOps, UNCHANGED <<keys, requestVars, crashes>>
  PROVE  IInv'
<1>0. TypeOK /\ OwnRow /\ Settling /\ AfterFinish /\ NotYet /\ OnlyOrphansIntrude
  BY DEF IInv
<1>1. /\ usage' \in [RowIds -> Rows \cup {NoRow}]
      /\ \A i \in RowIds : usage'[i] # NoRow => i \notin ids /\ usage'[i] = usage[i]
      /\ \A i \in RowIds : i \notin ids => usage'[i] = usage[i]
      /\ orphaned \subseteq orphaned' /\ orphaned' \subseteq Requests
      /\ \A r \in Requests, i \in ids : Running(r) /\ usage[i].owner = r
           => r \in orphaned'
  BY <1>0, DeleteWrites
<1>2. UNCHANGED <<keys, pc, kid, usageId, finish, background, crashes>>
  BY DEF requestVars
<1>3. TypeOK'
  <2>1. /\ \A q \in Requests : (pc'[q] = "known" => kid'[q] \in KeyIds) /\
                               (Running(q)' => usageId'[q] \in RowIds)
    BY <1>0, <1>2 DEF TypeOK, Running
  <2>2. QED
    BY <1>0, <1>1, <1>2, <2>1 DEF TypeOK
<1>4. OwnRow'
  <2> SUFFICES ASSUME NEW q \in Requests, Running(q)', q \notin orphaned'
               PROVE  usage'[usageId[q]] # NoRow /\ usage'[usageId[q]].owner = q
    BY <1>2 DEF OwnRow, Exists
  <2>1. Running(q) /\ q \notin orphaned
    BY <1>1, <1>2 DEF Running
  <2>2. /\ usageId[q] \in RowIds
        /\ Exists(usageId[q]) /\ usage[usageId[q]].owner = q
    BY <2>1, <1>0 DEF TypeOK, OwnRow, Running
  <2>3. usageId[q] \notin ids
    BY <2>1, <2>2, <1>1
  <2>4. QED
    BY <2>2, <2>3, <1>1 DEF Exists
<1>5. Settling' /\ OnlyOrphansIntrude'
  BY <1>0, <1>1, <1>2 DEF Settling, Held, Running, OnlyOrphansIntrude, Exists
<1>6. AfterFinish' /\ NotYet'
  BY <1>0, <1>2 DEF AfterFinish, NotYet
<1>7. QED
  BY <1>3, <1>4, <1>5, <1>6 DEF IInv

(* What the writers of a row do to it. *)
LEMMA UpdateKeeps ==
  ASSUME IInv, NEW r \in Requests, pc[r] = "ending", Exists(usageId[r]), Update(r),
         orphaned' = orphaned
  PROVE  /\ usage' \in [RowIds -> Rows \cup {NoRow}]
         /\ \A i \in RowIds : /\ (usage'[i] # NoRow) <=> Exists(i)
                              /\ Exists(i) => usage'[i].owner = usage[i].owner
                              /\ Exists(i) /\ usage'[i].started
                                   => usage[i].started /\ usage[i].owner # r
         /\ OnlyOrphansIntrude'
<1>0. TypeOK /\ OwnRow /\ Settling /\ OnlyOrphansIntrude
  BY DEF IInv
<1>1. usageId[r] \in RowIds
  BY <1>0 DEF TypeOK, Running
<1>2. /\ usage' \in [RowIds -> Rows \cup {NoRow}]
      /\ \A i \in RowIds : i # usageId[r] => usage'[i] = usage[i]
      /\ usage'[usageId[r]] # NoRow
      /\ usage'[usageId[r]].owner = usage[usageId[r]].owner
      /\ usage'[usageId[r]].started = FALSE
      /\ usage'[usageId[r]].by = r
  BY <1>0, <1>1, UpdateWrites
<1>3. r \in orphaned \/ usage[usageId[r]].owner = r
  BY <1>0 DEF OwnRow, Running
<1>4. OnlyOrphansIntrude'
  <2> SUFFICES ASSUME NEW i \in RowIds, usage'[i] # NoRow,
                      usage'[i].by \notin {Nobody, usage'[i].owner}
               PROVE  usage'[i].by \in orphaned
    BY DEF OnlyOrphansIntrude, Exists
  <2>1. CASE i = usageId[r]
    BY <2>1, <1>2, <1>3
  <2>2. CASE i # usageId[r]
    BY <2>2, <1>0, <1>2 DEF OnlyOrphansIntrude, Exists
  <2>3. QED  BY <2>1, <2>2
<1>5. \A i \in RowIds : Exists(i) /\ usage[i].started /\ usage[i].owner = r
                          => usageId[r] = i
  BY <1>0 DEF Settling, Held
<1>6. QED
  BY <1>1, <1>2, <1>4, <1>5 DEF Exists

(* A task that only looks at the row, and does not give up on a "started" one. *)
LEMMA LookKeeps ==
  ASSUME IInv, NEW r \in Requests, pc[r] = "ending",
         NEW f \in {"none", "todo", "read", "done"},
         NEW b \in {"after", "todo", "read", "done"},
         Ended(r, f, b), b = "after" => f \in {"todo", "read"}, usage' = usage,
         b # "done" \/ background[r] = "done"
           \/ ~(Exists(usageId[r]) /\ usage[usageId[r]].started)
  PROVE  IInv'
<1>0. TypeOK /\ Settling /\ OnlyOrphansIntrude
  BY DEF IInv
<1>1. orphaned' = orphaned
  BY DEF Ended
<1>2. OnlyOrphansIntrude'
  BY <1>0, <1>1 DEF OnlyOrphansIntrude, Exists
<1>3. usage' \in [RowIds -> Rows \cup {NoRow}]
  BY <1>0 DEF TypeOK
<1>4. \A i \in RowIds : Exists(i) /\ usage[i].started
                          => (b = "done" => usage[i].owner # r)
  BY <1>0 DEF Settling, Held
<1>5. QED
  BY <1>2, <1>3, <1>4, EndedKeeps DEF Exists

(* The steps of the finish task and of the background task. *)
LEMMA TaskKeeps ==
  ASSUME IInv, NEW r \in Requests,
         \/ FinishReads(r) \/ FinishWrites(r) \/ BackgroundReads(r) \/ BackgroundWrites(r)
  PROVE  IInv'
<1>0. TypeOK /\ OwnRow /\ Settling /\ AfterFinish /\ NotYet /\ OnlyOrphansIntrude
  BY DEF IInv
<1>1. /\ pc[r] = "ending" /\ usageId[r] \in RowIds
  BY <1>0 DEF TypeOK, FinishReads, FinishWrites, BackgroundReads, BackgroundWrites,
              Running
<1>2. /\ finish[r] \in {"none", "todo", "read", "done"}
      /\ background[r] \in {"after", "todo", "read", "done"}
      /\ background[r] = "after" => finish[r] \in {"todo", "read"}
  BY <1>0, <1>1 DEF TypeOK, NotYet, AfterFinish
<1> DEFINE next == IF background[r] = "after" THEN "todo" ELSE background[r]
<1>3. /\ next \in {"todo", "read", "done"}
      /\ next = "done" => background[r] = "done"
  BY <1>2
<1>4. CASE FinishReads(r)
  <2>1. /\ usage' = usage
        /\ Ended(r, "read", background[r]) \/ Ended(r, "done", next)
    BY <1>4 DEF FinishReads
  <2>2. CASE Ended(r, "read", background[r])
    BY <2>1, <2>2, <1>1, <1>2, LookKeeps
  <2>3. CASE Ended(r, "done", next)
    <3> HIDE DEF next
    <3> QED  BY <2>1, <2>3, <1>1, <1>3, LookKeeps
  <2>4. QED  BY <2>1, <2>2, <2>3
<1>5. CASE FinishWrites(r)
  <2>1. CASE Exists(usageId[r]) /\ Update(r) /\ Ended(r, "done", next)
    <3> HIDE DEF next
    <3>1. orphaned' = orphaned
      BY <2>1 DEF Ended
    <3>2. /\ usage' \in [RowIds -> Rows \cup {NoRow}]
          /\ \A i \in RowIds : /\ (usage'[i] # NoRow) <=> Exists(i)
                               /\ Exists(i) => usage'[i].owner = usage[i].owner
                               /\ Exists(i) /\ usage'[i].started
                                    => usage[i].started /\ usage[i].owner # r
          /\ OnlyOrphansIntrude'
      BY <2>1, <3>1, <1>1, UpdateKeeps
    <3>3. QED
      BY <2>1, <3>2, <1>1, <1>3, EndedKeeps
  <2>2. CASE /\ ~Exists(usageId[r]) /\ usage' = usage
             /\ Ended(r, "done", IF background[r] = "after" THEN "done" ELSE background[r])
    <3> DEFINE b == IF background[r] = "after" THEN "done" ELSE background[r]
    <3>1. b \in {"todo", "read", "done"}
      BY <1>2
    <3>2. Ended(r, "done", b) /\ ~Exists(usageId[r]) /\ usage' = usage
      BY <2>2
    <3> HIDE DEF b
    <3>3. QED
      BY <3>1, <3>2, <1>1, LookKeeps
  <2>3. QED
    BY <2>1, <2>2, <1>5 DEF FinishWrites
<1>6. CASE BackgroundReads(r)
  <2>1. CASE /\ usage' = usage /\ Ended(r, finish[r], "read")
    BY <2>1, <1>1, <1>2, LookKeeps
  <2>2. CASE /\ usage' = usage /\ Ended(r, finish[r], "done")
             /\ ~(Exists(usageId[r]) /\ usage[usageId[r]].started)
    BY <2>2, <1>1, <1>2, LookKeeps
  <2>3. QED
    BY <2>1, <2>2, <1>6 DEF BackgroundReads
<1>7. CASE BackgroundWrites(r)
  <2>1. CASE Exists(usageId[r]) /\ Update(r) /\ Ended(r, finish[r], "done")
    <3>1. orphaned' = orphaned
      BY <2>1 DEF Ended
    <3>2. /\ usage' \in [RowIds -> Rows \cup {NoRow}]
          /\ \A i \in RowIds : /\ (usage'[i] # NoRow) <=> Exists(i)
                               /\ Exists(i) => usage'[i].owner = usage[i].owner
                               /\ Exists(i) /\ usage'[i].started
                                    => usage[i].started /\ usage[i].owner # r
          /\ OnlyOrphansIntrude'
      BY <2>1, <3>1, <1>1, UpdateKeeps
    <3>3. QED
      BY <2>1, <3>2, <1>1, <1>2, EndedKeeps
  <2>2. CASE ~Exists(usageId[r]) /\ usage' = usage /\ Ended(r, finish[r], "done")
    BY <2>2, <1>1, <1>2, LookKeeps
  <2>3. QED
    BY <2>1, <2>2, <1>7 DEF BackgroundWrites
<1>8. QED
  BY <1>4, <1>5, <1>6, <1>7

LEMMA StepIInv == IInv /\ [Next]_vars => IInv'
<1> SUFFICES ASSUME IInv, [Next]_vars PROVE IInv'
  OBVIOUS
<1>0. TypeOK /\ NotYet /\ AfterFinish
  BY DEF IInv
<1>1. ASSUME NEW r \in Requests, NEW k \in KeyIds, Authenticate(r, k)
      PROVE  IInv'
  <2>1. TypeOK'
    BY <1>1, <1>0 DEF TypeOK, Authenticate, boundVars, Running, KeyIds
  <2>2. QED
    BY <1>1, <1>0, <2>1, QuietKeeps
       DEF Authenticate, boundVars, Running, TypeOK, AfterFinish
<1>2. ASSUME NEW r \in Requests, Refused(r)
      PROVE  IInv'
  <2>1. TypeOK'
    BY <1>2, <1>0 DEF TypeOK, Refused, boundVars, Running
  <2>2. QED
    BY <1>2, <1>0, <2>1, QuietKeeps
       DEF Refused, boundVars, Running, TypeOK, AfterFinish
<1>3. ASSUME NEW r \in Requests, StreamEnds(r)
      PROVE  IInv'
  <2>1. PICK f, b \in {"none", "after", "todo"} :
          /\ <<f, b>> \in {<<"todo", "after">>, <<"todo", "todo">>, <<"none", "todo">>}
          /\ finish' = [finish EXCEPT ![r] = f]
          /\ background' = [background EXCEPT ![r] = b]
    BY <1>3 DEF StreamEnds
  <2>2. f \in {"todo", "none"} /\ b \in {"after", "todo"} /\ (b = "after" => f = "todo")
    BY <2>1
  <2>3. /\ pc[r] = "streaming" /\ pc' = [pc EXCEPT ![r] = "ending"]
        /\ UNCHANGED <<keys, usage, kid, usageId, adminOps, crashes, orphaned, counted>>
    BY <1>3 DEF StreamEnds, boundVars
  <2>4. TypeOK'
    BY <1>0, <2>1, <2>2, <2>3 DEF TypeOK, Running
  <2>5. QED
    BY <1>0, <2>1, <2>2, <2>3, <2>4, QuietKeeps DEF Running, TypeOK, AfterFinish
<1>4. ASSUME NEW r \in Requests, NEW i \in RowIds, NEW a \in Accounts,
             PlainEnds(r, i, a) \/ StreamStarts(r, i, a)
      PROVE  IInv'
  BY <1>4, InsertKeeps
<1>5. ASSUME NEW r \in Requests,
             \/ FinishReads(r) \/ FinishWrites(r)
             \/ BackgroundReads(r) \/ BackgroundWrites(r)
      PROVE  IInv'
  BY <1>5, TaskKeeps
<1>6. ASSUME NEW k \in KeyIds, AddKey(k) \/ ToggleKey(k) \/ DeleteKey(k)
      PROVE  IInv'
  <2>1. /\ adminOps' \in 0..MaxAdminOps
        /\ keys' \in [KeyIds -> {"absent", "active", "disabled"}]
        /\ UNCHANGED <<pc, kid, usageId, finish, background, crashes, usage, orphaned,
                       counted>>
    BY <1>6, <1>0, RowsAssumption
       DEF AddKey, ToggleKey, DeleteKey, Admin, requestVars, TypeOK
  <2>2. TypeOK'
    BY <1>0, <2>1 DEF TypeOK, Running
  <2>3. QED
    BY <1>0, <2>1, <2>2, QuietKeeps DEF Running, AfterFinish
<1>7. ASSUME NEW k \in KeyIds, ResetKey(k)
      PROVE  IInv'
  <2>1. /\ Delete({i \in RowIds : Exists(i) /\ usage[i].key = k})
        /\ counted' \subseteq counted /\ adminOps' \in 0..MaxAdminOps
        /\ UNCHANGED <<keys, requestVars, crashes>>
    BY <1>7, <1>0, RowsAssumption DEF ResetKey, Admin, TypeOK
  <2>2. QED
    BY <2>1, ResetKeeps
<1>8. ASSUME NEW a \in Accounts, ResetAccount(a)
      PROVE  IInv'
  <2>1. /\ Delete({i \in RowIds : Exists(i) /\ usage[i].account = a})
        /\ counted' \subseteq counted /\ adminOps' \in 0..MaxAdminOps
        /\ UNCHANGED <<keys, requestVars, crashes>>
    BY <1>8, <1>0, RowsAssumption DEF ResetAccount, Admin, TypeOK
  <2>2. QED
    BY <2>1, ResetKeeps
<1>9. CASE Crash
  <2>1. TypeOK'
    BY <1>9, <1>0, RowsAssumption DEF Crash, TypeOK, Running
  <2>2. QED
    BY <1>9, <1>0, <2>1, QuietKeeps DEF Crash, TypeOK, Running
<1>10. CASE UNCHANGED vars
  <2>1. TypeOK'
    BY <1>10, <1>0 DEF vars, TypeOK, Running
  <2>2. QED
    BY <1>10, <1>0, <2>1, QuietKeeps DEF vars, Running, AfterFinish
<1>11. QED
  BY <1>1, <1>2, <1>3, <1>4, <1>5, <1>6, <1>7, <1>8, <1>9, <1>10 DEF Next

-------------------------------------------------------------------------------
LEMMA Invariance == Spec => []IInv
BY InitIInv, StepIInv, PTL DEF Spec

(* Types of the tables, the requests and their tasks. *)
THEOREM TypeCorrect == Spec => []TypeOK
BY Invariance, PTL DEF IInv

(* chat.py, _finish_usage and _finish_stream_usage: only a request whose    *)
(* row was reset under it ever writes a row of another request.             *)
THEOREM IntrudersWereReset == Spec => []OnlyOrphansIntrude
BY Invariance, PTL DEF IInv

(* No administrator operation and no writer leaves a row "started" whose    *)
(* stream is over; only a crash does.                                       *)
THEOREM StartedMeansRunning == Spec => []StartedIsRunning
<1>1. IInv => StartedIsRunning
  BY DEF IInv, Settling, Held, StartedIsRunning
<1>2. QED
  BY <1>1, Invariance, PTL

-------------------------------------------------------------------------------
(* The totals of the usage page *)

Line(i) == [request |-> usage[i].owner, key |-> usage[i].key,
            account |-> usage[i].account]

(* The rows are the insertions that were not reset, one row each. *)
Ledger ==
  /\ \A i \in RowIds : Exists(i) => Line(i) \in counted
  /\ \A c \in counted : \E i \in RowIds : Exists(i) /\ c = Line(i)
  /\ \A i, j \in RowIds : Exists(i) /\ Exists(j) /\ usage[i].owner = usage[j].owner
                            => i = j
  /\ \A i \in RowIds : Exists(i) => pc[usage[i].owner] \notin {"new", "known"}

LEMMA InitLedger == Init => Ledger
BY DEF Init, Ledger, Exists

(* An update keeps what a row is counted for. *)
LEMMA UpdateKeepsLines ==
  ASSUME TypeOK, NEW r \in Requests, usageId[r] \in RowIds, Exists(usageId[r]),
         Update(r)
  PROVE  \A i \in RowIds : /\ (usage'[i] # NoRow) <=> Exists(i)
                           /\ Exists(i) => Line(i)' = Line(i)
<1>1. \A i \in RowIds : i # usageId[r] => usage'[i] = usage[i]
  BY UpdateWrites
<1>2. usage'[usageId[r]] # NoRow
  BY UpdateWrites
<1>3. usage[usageId[r]] \in Rows
  BY DEF TypeOK, Exists
<1>4. usage'[usageId[r]] = [usage[usageId[r]] EXCEPT !.started = FALSE, !.by = r]
  BY DEF TypeOK, Update
<1>5. /\ usage'[usageId[r]].owner = usage[usageId[r]].owner
      /\ usage'[usageId[r]].key = usage[usageId[r]].key
      /\ usage'[usageId[r]].account = usage[usageId[r]].account
  BY <1>3, <1>4 DEF Rows
<1>6. QED
  BY <1>1, <1>2, <1>5 DEF Line, Exists

LEMMA SameLines ==
  ASSUME TypeOK, Ledger, counted' = counted,
         \A i \in RowIds : /\ (usage'[i] # NoRow) <=> Exists(i)
                           /\ Exists(i) => Line(i)' = Line(i),
         \A q \in Requests : pc'[q] \in {"new", "known"} => pc[q] \in {"new", "known"}
  PROVE  Ledger'
<1>1. \A i \in RowIds : Exists(i) => usage'[i].owner = usage[i].owner
  BY DEF Line
<1>2. \A i \in RowIds : Exists(i) => usage[i].owner \in Requests
  BY DEF TypeOK, Exists, Rows
<1>3. \A i \in RowIds : Exists(i) => Line(i)' \in counted'
  BY DEF Ledger
<1>4. \A c \in counted' : \E i \in RowIds : Exists(i) /\ c = Line(i)'
  BY DEF Ledger
<1>5. QED
  BY <1>1, <1>2, <1>3, <1>4 DEF Ledger, Exists

(* A row and its line are added together. *)
LEMMA InsertLedger ==
  ASSUME TypeOK, Ledger, NEW r \in Requests, pc[r] = "known", NEW i \in RowIds,
         NEW a \in Accounts, NEW started \in BOOLEAN,
         NEW by \in Requests \cup {Nobody}, Insert(r, i, a, started, by),
         pc'[r] \notin {"new", "known"},
         \A q \in Requests : pc'[q] \in {"new", "known"} => pc[q] \in {"new", "known"}
  PROVE  Ledger'
<1>0. kid[r] \in KeyIds
  BY DEF TypeOK
<1>1. /\ ~Exists(i) /\ usage'[i] # NoRow
      /\ \A j \in RowIds : j # i => usage'[j] = usage[j]
      /\ usage'[i].owner = r
  BY <1>0, InsertWrites
<1>2. /\ usage'[i].key = kid[r] /\ usage'[i].account = a
  BY DEF Insert, TypeOK
<1>3. counted' = counted \cup {Line(i)'}
  BY <1>1, <1>2 DEF Insert, Line
<1>4. \A j \in RowIds : j # i => Line(j)' = Line(j)
  BY <1>1 DEF Line
<1>5. \A j \in RowIds : Exists(j) => usage[j].owner # r /\ usage[j].owner \in Requests
  BY DEF Ledger, TypeOK, Exists, Rows
<1>6. \A j \in RowIds : usage'[j] # NoRow => Line(j)' \in counted'
  BY <1>1, <1>3, <1>4 DEF Ledger, Exists
<1>7. \A c \in counted' : \E j \in RowIds : usage'[j] # NoRow /\ c = Line(j)'
  <2> SUFFICES ASSUME NEW c \in counted'
               PROVE  \E j \in RowIds : usage'[j] # NoRow /\ c = Line(j)'
    OBVIOUS
  <2>1. CASE c = Line(i)'
    BY <2>1, <1>1
  <2>2. CASE c \in counted
    <3>1. PICK j \in RowIds : Exists(j) /\ c = Line(j)
      BY <2>2 DEF Ledger
    <3>2. QED  BY <3>1, <1>1, <1>4 DEF Exists
  <2>3. QED  BY <2>1, <2>2, <1>3
<1>8. \A j, k \in RowIds : usage'[j] # NoRow /\ usage'[k] # NoRow
                             /\ usage'[j].owner = usage'[k].owner => j = k
  BY <1>1, <1>5 DEF Ledger, Exists
<1>9. \A j \in RowIds : usage'[j] # NoRow => pc'[usage'[j].owner] \notin {"new", "known"}
  BY <1>1, <1>5 DEF Ledger, Exists
<1>10. QED
  BY <1>6, <1>7, <1>8, <1>9 DEF Ledger, Exists

(* A reset deletes rows and lines by the same column. *)
LEMMA ResetLedger ==
  ASSUME TypeOK, Ledger, pc' = pc,
         (\E k \in KeyIds : ResetKey(k)) \/ (\E a \in Accounts : ResetAccount(a))
  PROVE  Ledger'
<1>1. PICK ids \in SUBSET RowIds :
        /\ Delete(ids) /\ counted' \subseteq counted
        /\ \A i \in RowIds : Exists(i) => (i \in ids <=> Line(i) \notin counted')
  <2>1. ASSUME NEW k \in KeyIds, ResetKey(k)
        PROVE  LET ids == {i \in RowIds : Exists(i) /\ usage[i].key = k}
               IN  /\ Delete(ids) /\ counted' \subseteq counted
                   /\ \A i \in RowIds : Exists(i)
                        => (i \in ids <=> Line(i) \notin counted')
    BY <2>1 DEF ResetKey, Ledger, Line
  <2>2. ASSUME NEW a \in Accounts, ResetAccount(a)
        PROVE  LET ids == {i \in RowIds : Exists(i) /\ usage[i].account = a}
               IN  /\ Delete(ids) /\ counted' \subseteq counted
                   /\ \A i \in RowIds : Exists(i)
                        => (i \in ids <=> Line(i) \notin counted')
    BY <2>2 DEF ResetAccount, Ledger, Line
  <2>3. QED
    BY <2>1, <2>2
<1>2. /\ \A i \in RowIds : usage'[i] # NoRow => i \notin ids /\ usage'[i] = usage[i]
      /\ \A i \in RowIds : i \notin ids => usage'[i] = usage[i]
  BY <1>1, DeleteWrites
<1>3. \A i \in RowIds : usage'[i] # NoRow => Exists(i) /\ Line(i)' = Line(i)
  BY <1>2 DEF Line, Exists
<1>4. \A i \in RowIds : usage'[i] # NoRow => Line(i)' \in counted'
  BY <1>1, <1>2, <1>3
<1>5. \A c \in counted' : \E i \in RowIds : usage'[i] # NoRow /\ c = Line(i)'
  <2> SUFFICES ASSUME NEW c \in counted'
               PROVE  \E i \in RowIds : usage'[i] # NoRow /\ c = Line(i)'
    OBVIOUS
  <2>1. PICK i \in RowIds : Exists(i) /\ c = Line(i)
    BY <1>1 DEF Ledger
  <2>2. i \notin ids
    BY <2>1, <1>1
  <2>3. QED
    BY <2>1, <2>2, <1>2, <1>3 DEF Exists
<1>6. QED
  BY <1>2, <1>3, <1>4, <1>5 DEF Ledger, Exists

LEMMA StepLedger == TypeOK /\ Ledger /\ [Next]_vars => Ledger'
<1> SUFFICES ASSUME TypeOK, Ledger, [Next]_vars PROVE Ledger'
  OBVIOUS
<1>1. ASSUME UNCHANGED <<usage, counted>>,
             \A q \in Requests : pc'[q] \in {"new", "known"} => pc[q] \in {"new", "known"}
      PROVE  Ledger'
  BY <1>1, SameLines DEF Line, Exists
<1>2. ASSUME NEW r \in Requests, NEW f, NEW b, pc[r] = "ending", Ended(r, f, b),
             usage' = usage \/ (Exists(usageId[r]) /\ Update(r))
      PROVE  Ledger'
  <2>1. /\ counted' = counted /\ usageId[r] \in RowIds
        /\ \A q \in Requests : pc'[q] \in {"new", "known"} => pc[q] \in {"new", "known"}
    BY <1>2 DEF Ended, TypeOK, Running
  <2>2. CASE usage' = usage
    BY <2>1, <2>2, <1>1
  <2>3. CASE Exists(usageId[r]) /\ Update(r)
    BY <2>1, <2>3, UpdateKeepsLines, SameLines
  <2>4. QED  BY <1>2, <2>2, <2>3
<1>3. ASSUME NEW r \in Requests,
             \/ FinishReads(r) \/ FinishWrites(r)
             \/ BackgroundReads(r) \/ BackgroundWrites(r)
      PROVE  Ledger'
  <2>1. pc[r] = "ending"
    BY <1>3 DEF TypeOK, FinishReads, FinishWrites, BackgroundReads, BackgroundWrites
  <2>2. \E f, b : Ended(r, f, b) /\ (usage' = usage \/ (Exists(usageId[r]) /\ Update(r)))
    BY <1>3, Zenon DEF FinishReads, FinishWrites, BackgroundReads, BackgroundWrites
  <2>3. QED
    BY <2>1, <2>2, <1>2
<1>4. ASSUME NEW r \in Requests, NEW k \in KeyIds, Authenticate(r, k)  PROVE Ledger'
  BY <1>4, <1>1 DEF Authenticate, TypeOK
<1>5. ASSUME NEW r \in Requests, Refused(r) \/ StreamEnds(r)  PROVE Ledger'
  BY <1>5, <1>1 DEF Refused, StreamEnds, TypeOK
<1>6. ASSUME NEW r \in Requests, NEW i \in RowIds, NEW a \in Accounts,
             PlainEnds(r, i, a) \/ StreamStarts(r, i, a)
      PROVE  Ledger'
  <2>1. /\ pc[r] = "known" /\ pc'[r] \notin {"new", "known"}
        /\ \A q \in Requests : pc'[q] \in {"new", "known"} => pc[q] \in {"new", "known"}
    BY <1>6 DEF PlainEnds, StreamStarts, TypeOK
  <2>2. CASE Insert(r, i, a, FALSE, r)
    <3>1. r \in Requests \cup {Nobody}
      OBVIOUS
    <3>2. QED  BY <2>1, <2>2, <3>1, InsertLedger
  <2>3. CASE Insert(r, i, a, TRUE, Nobody)
    BY <2>1, <2>3, InsertLedger
  <2>4. QED
    BY <1>6, <2>2, <2>3 DEF PlainEnds, StreamStarts
<1>7. ASSUME NEW k \in KeyIds, AddKey(k) \/ ToggleKey(k) \/ DeleteKey(k)  PROVE Ledger'
  BY <1>7, <1>1 DEF AddKey, ToggleKey, DeleteKey, Admin, requestVars
<1>8. ASSUME NEW k \in KeyIds, ResetKey(k)  PROVE Ledger'
  BY <1>8, ResetLedger DEF ResetKey, Admin, requestVars
<1>9. ASSUME NEW a \in Accounts, ResetAccount(a)  PROVE Ledger'
  BY <1>9, ResetLedger DEF ResetAccount, Admin, requestVars
<1>10. CASE Crash
  BY <1>10, <1>1 DEF Crash
<1>11. CASE UNCHANGED vars
  BY <1>11, <1>1 DEF vars
<1>12. QED
  BY <1>3, <1>4, <1>5, <1>6, <1>7, <1>8, <1>9, <1>10, <1>11 DEF Next

(* Rows and lines that agree on a column are equally many. *)
LEMMA EquallyMany ==
  ASSUME Ledger, NEW rows \in SUBSET RowIds, NEW lines \in SUBSET counted,
         \A i \in rows : Exists(i) /\ Line(i) \in lines,
         \A c \in lines : \E i \in rows : c = Line(i)
  PROVE  Cardinality(rows) = Cardinality(lines)
<1> DEFINE f == [i \in rows |-> Line(i)]
<1>1. f \in [rows -> lines]
  OBVIOUS
<1>2. \A i, j \in rows : f[i] = f[j] => i = j
  BY DEF Ledger, Line
<1>3. \A c \in lines : \E i \in rows : f[i] = c
  OBVIOUS
<1>4. ExistsBijection(rows, lines)
  <2> HIDE DEF f
  <2>1. f \in Bijection(rows, lines)
    BY <1>1, <1>2, <1>3, Fun_IsBij
  <2>2. QED  BY <2>1, Fun_ExistsBij
<1>5. IsFiniteSet(rows)
  <2>1. IsFiniteSet(RowIds)
    BY RowsAssumption, FS_Interval DEF RowIds
  <2>2. QED  BY <2>1, FS_Subset
<1>6. QED
  BY <1>4, <1>5, FS_Bijection

(* routes.py, usage_page: the totals per key and per account are the        *)
(* requests that inserted a row and were not reset since.                   *)
THEOREM TotalsAreExact == Spec => []PagesCount
<1>1. TypeOK /\ Ledger => PagesCount
  <2> SUFFICES ASSUME TypeOK, Ledger PROVE PagesCount
    OBVIOUS
  <2>1. ASSUME NEW k \in KeyIds
        PROVE  Cardinality({i \in RowIds : Exists(i) /\ usage[i].key = k})
                 = Cardinality({c \in counted : c.key = k})
    BY EquallyMany DEF Ledger, Line
  <2>2. ASSUME NEW a \in Accounts
        PROVE  Cardinality({i \in RowIds : Exists(i) /\ usage[i].account = a})
                 = Cardinality({c \in counted : c.account = a})
    BY EquallyMany DEF Ledger, Line
  <2>3. QED
    BY <2>1, <2>2 DEF PagesCount, KeyTotal, AccountTotal
<1>2. QED
  BY <1>1, InitLedger, StepLedger, TypeCorrect, PTL DEF Spec
===============================================================================
