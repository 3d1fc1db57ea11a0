-------------------------- MODULE DashboardProofs --------------------------
(***************************************************************************)
(* Proofs about the dashboard, beside any number of writers, incidents,    *)
(* events and removals of the database, for tables and queues of any size. *)
(***************************************************************************)
EXTENDS Dashboard, FiniteSetTheorems, TLAPS

StoreOK == db \in Seq(File) /\ db # << >>

RowType == [id : IncidentId, hardware : Hardware, status : Status]

\* What a file becomes while others write to it: rows are added at the end,
\* and those there keep everything but a status that is still pending.
Grown(r, s) ==
    /\ Len(r) <= Len(s)
    /\ \A i \in DOMAIN r :
         /\ s[i].id = r[i].id
         /\ s[i].hardware = r[i].hardware
         /\ s[i].status = r[i].status \/ r[i].status = "pending"

\* A row that is added is one of an incident no file knows.
Fresh(r, s) ==
    \A i \in DOMAIN s \ DOMAIN r : \A f \in DOMAIN db : RowOf(f, s[i].id) = {}

-----------------------------------------------------------------------------
(* The writers.                                                            *)

LEMMA FileFacts ==
    ASSUME StoreOK
    PROVE  /\ Now \in DOMAIN db /\ Now \in Nat
           /\ DOMAIN db = 1..Now
           /\ \A f \in DOMAIN db :
                /\ db[f] \in File
                /\ db[f].rows \in Seq(RowType)
                /\ db[f].events \in 0..MaxEvents
                /\ DOMAIN db[f].rows = 1..Len(db[f].rows)
                /\ Len(db[f].rows) \in Nat
<1>1. db \in Seq(File) /\ db # << >>
  BY DEF StoreOK
<1>2. Now \in DOMAIN db /\ Now \in Nat /\ DOMAIN db = 1..Now
  BY <1>1 DEF Now
<1>3. ASSUME NEW f \in DOMAIN db
      PROVE  /\ db[f] \in File
             /\ db[f].rows \in Seq(RowType)
             /\ db[f].events \in 0..MaxEvents
  <2>1. db[f] \in File
    BY <1>1
  <2>2. QED
    BY <2>1 DEF File, RowType
<1>4. QED
  BY <1>2, <1>3

\* A file in place of the newest one.
LEMMA ReplaceFile ==
    ASSUME StoreOK, NEW new \in File, db' = [db EXCEPT ![Now] = new]
    PROVE  /\ StoreOK'
           /\ Now' = Now
           /\ DOMAIN db' = DOMAIN db
           /\ db'[Now] = new
           /\ \A f \in DOMAIN db \ {Now} : db'[f] = db[f]
<1>1. /\ Now \in DOMAIN db /\ Now \in Nat /\ DOMAIN db = 1..Now
      /\ \A f \in DOMAIN db : db[f] \in File
  BY FileFacts
<1>2. db' \in [1..Now -> File]
  BY <1>1
<1>3. db' \in Seq(File) /\ Len(db') = Now
  BY <1>1, <1>2
<1>4. Len(db') # 0
  BY <1>1, <1>3
<1>5. db' # << >>
  BY <1>4
<1>6. Now' = Now
  BY <1>3 DEF Now
<1>7. db'[Now] = new /\ \A f \in DOMAIN db \ {Now} : db'[f] = db[f]
  BY <1>1
<1>8. DOMAIN db' = DOMAIN db
  BY <1>1, <1>2
<1>9. QED
  BY <1>3, <1>5, <1>6, <1>7, <1>8 DEF StoreOK

LEMMA GrownRefl ==
    ASSUME StoreOK
    PROVE  \A f \in DOMAIN db : Grown(db[f].rows, db[f].rows) /\ Fresh(db[f].rows, db[f].rows)
BY FileFacts DEF Grown, Fresh

LEMMA NewestGrows ==
    ASSUME StoreOK, NEW new \in File, db' = [db EXCEPT ![Now] = new],
           Grown(db[Now].rows, new.rows), Fresh(db[Now].rows, new.rows)
    PROVE  /\ StoreOK'
           /\ Now' = Now
           /\ \A f \in DOMAIN db :
                /\ f \in DOMAIN db'
                /\ Grown(db[f].rows, db'[f].rows)
                /\ Fresh(db[f].rows, db'[f].rows)
<1>1. /\ StoreOK' /\ Now' = Now /\ DOMAIN db' = DOMAIN db
      /\ db'[Now] = new
      /\ \A f \in DOMAIN db \ {Now} : db'[f] = db[f]
  BY ReplaceFile
<1>2. QED
  BY <1>1, GrownRefl

\* Every write leaves each file grown, by fresh rows only, and a removal adds
\* a file with no rows.
LEMMA WriterStep ==
    ASSUME StoreOK, Writer
    PROVE  /\ StoreOK'
           /\ Now <= Now'
           /\ \A f \in DOMAIN db :
                /\ f \in DOMAIN db'
                /\ Grown(db[f].rows, db'[f].rows)
                /\ Fresh(db[f].rows, db'[f].rows)
           /\ Now' # Now => db'[Now'].rows = << >>
           /\ UNCHANGED <<pc, conn, opened, queue, last_audit_id, screen>>
<1>1. /\ Now \in DOMAIN db /\ Now \in Nat /\ DOMAIN db = 1..Now
      /\ \A f \in DOMAIN db : db[f] \in File
      /\ db[Now].rows \in Seq(RowType)
      /\ Len(db[Now].rows) \in Nat
      /\ DOMAIN db[Now].rows = 1..Len(db[Now].rows)
      /\ db[Now].events \in 0..MaxEvents
  BY FileFacts
<1>2. UNCHANGED <<pc, conn, opened, queue, last_audit_id, screen>>
  BY DEF Writer, Insert, Settle, LogEvent, Reset, CreateTables
<1>4. CASE Insert
  <2>1. PICK id \in IncidentId, hw \in Hardware :
            /\ \A f \in DOMAIN db : RowOf(f, id) = {}
            /\ db' = [db EXCEPT ![Now].rows =
                   Append(@, [id |-> id, hardware |-> hw, status |-> "pending"])]
    BY <1>4 DEF Insert
  <2> DEFINE row  == [id |-> id, hardware |-> hw, status |-> "pending"]
             rows == Append(db[Now].rows, row)
             new  == [db[Now] EXCEPT !.rows = rows]
  <2>2. row \in RowType
    BY DEF RowType, Status
  <2>3. rows \in Seq(RowType)
    BY <1>1, <2>2
  <2>4. new \in File
    BY <1>1, <2>3 DEF File, RowType
  <2>5. db' = [db EXCEPT ![Now] = new] /\ new.rows = rows
    BY <1>1, <2>1 DEF File
  <2>6. /\ Len(rows) = Len(db[Now].rows) + 1
        /\ DOMAIN rows = DOMAIN db[Now].rows \cup {Len(db[Now].rows) + 1}
        /\ rows[Len(db[Now].rows) + 1].id = id
        /\ \A i \in DOMAIN db[Now].rows : rows[i] = db[Now].rows[i]
    BY <1>1
  <2> HIDE DEF rows, new
  <2>7. Grown(db[Now].rows, rows)
    BY <1>1, <2>6 DEF Grown
  <2>8. Fresh(db[Now].rows, rows)
    BY <2>1, <2>6 DEF Fresh
  <2>9. Grown(db[Now].rows, new.rows) /\ Fresh(db[Now].rows, new.rows)
    BY <2>5, <2>7, <2>8
  <2>10. /\ StoreOK' /\ Now' = Now
        /\ \A f \in DOMAIN db :
             /\ f \in DOMAIN db'
             /\ Grown(db[f].rows, db'[f].rows)
             /\ Fresh(db[f].rows, db'[f].rows)
    BY <2>4, <2>5, <2>9, NewestGrows
  <2>11. Now <= Now'
    BY <1>1, <2>10
  <2>12. QED
    BY <1>2, <2>10, <2>11
<1>5. CASE Settle
  <2>1. PICK i \in DOMAIN db[Now].rows, s \in Outcome :
            /\ db[Now].rows[i].status = "pending"
            /\ db' = [db EXCEPT ![Now].rows[i].status = s]
    BY <1>5 DEF Settle
  <2> DEFINE row  == [db[Now].rows[i] EXCEPT !.status = s]
             rows == [db[Now].rows EXCEPT ![i] = row]
             new  == [db[Now] EXCEPT !.rows = rows]
  <2>2. /\ row \in RowType
        /\ row.id = db[Now].rows[i].id
        /\ row.hardware = db[Now].rows[i].hardware
    <3>1. db[Now].rows[i] \in RowType
      BY <1>1
    <3>2. QED
      BY <3>1 DEF RowType, Status
  <2>3. rows \in Seq(RowType) /\ Len(rows) = Len(db[Now].rows)
    BY <1>1, <2>2
  <2>4. new \in File
    BY <1>1, <2>3 DEF File, RowType
  <2>5. db' = [db EXCEPT ![Now] = new] /\ new.rows = rows
    BY <1>1, <2>1 DEF File
  <2>6. /\ DOMAIN rows = DOMAIN db[Now].rows
        /\ rows[i] = row
        /\ \A k \in DOMAIN db[Now].rows \ {i} : rows[k] = db[Now].rows[k]
    BY <1>1
  <2> HIDE DEF rows, new, row
  <2>7. Grown(db[Now].rows, rows)
    <3>1. Len(db[Now].rows) <= Len(rows)
      BY <1>1, <2>3
    <3>2. ASSUME NEW k \in DOMAIN db[Now].rows
          PROVE  /\ rows[k].id = db[Now].rows[k].id
                 /\ rows[k].hardware = db[Now].rows[k].hardware
                 /\ rows[k].status = db[Now].rows[k].status \/ db[Now].rows[k].status = "pending"
      <4>1. CASE k = i
        BY <2>1, <2>2, <2>6, <4>1
      <4>2. CASE k # i
        BY <2>6, <4>2
      <4>3. QED
        BY <4>1, <4>2
    <3>3. QED
      BY <3>1, <3>2 DEF Grown
  <2>8. Fresh(db[Now].rows, rows)
    BY <2>6 DEF Fresh
  <2>9. Grown(db[Now].rows, new.rows) /\ Fresh(db[Now].rows, new.rows)
    BY <2>5, <2>7, <2>8
  <2>10. /\ StoreOK' /\ Now' = Now
        /\ \A f \in DOMAIN db :
             /\ f \in DOMAIN db'
             /\ Grown(db[f].rows, db'[f].rows)
             /\ Fresh(db[f].rows, db'[f].rows)
    BY <2>4, <2>5, <2>9, NewestGrows
  <2>11. Now <= Now'
    BY <1>1, <2>10
  <2>12. QED
    BY <1>2, <2>10, <2>11
<1>6. CASE LogEvent \/ CreateTables
  <2> DEFINE new == IF LogEvent THEN [db[Now] EXCEPT !.events = db[Now].events + 1]
                                ELSE [db[Now] EXCEPT !.tables = TRUE]
  <2>1. db' = [db EXCEPT ![Now] = new]
    BY <1>6 DEF LogEvent, CreateTables
  <2>2. LogEvent => db[Now].events + 1 \in 0..MaxEvents
    BY <1>1, DashboardAssumption DEF LogEvent
  <2>3. new \in File /\ new.rows = db[Now].rows
    <3>1. db[Now] \in File
      BY <1>1
    <3>2. QED
      BY <2>2, <3>1 DEF File
  <2> HIDE DEF new
  <2>4. Grown(db[Now].rows, new.rows) /\ Fresh(db[Now].rows, new.rows)
    BY <1>1, <2>3, GrownRefl
  <2>5. /\ StoreOK' /\ Now' = Now
        /\ \A f \in DOMAIN db :
             /\ f \in DOMAIN db'
             /\ Grown(db[f].rows, db'[f].rows)
             /\ Fresh(db[f].rows, db'[f].rows)
    BY <2>1, <2>3, <2>4, NewestGrows
  <2>6. Now <= Now'
    BY <1>1, <2>5
  <2>7. QED
    BY <1>2, <2>5, <2>6
<1>7. CASE Reset
  <2>1. NoFile \in File /\ NoFile.rows = << >>
    BY DashboardAssumption DEF NoFile, File
  <2>2. db' = Append(db, NoFile)
    BY <1>7 DEF Reset
  <2>3. /\ db' \in Seq(File) /\ db' # << >>
        /\ Now' = Now + 1
        /\ db'[Now + 1] = NoFile
        /\ \A f \in DOMAIN db : f \in DOMAIN db' /\ db'[f] = db[f]
    BY <2>1, <2>2 DEF StoreOK, Now
  <2>4. QED
    BY <1>1, <1>2, <2>1, <2>3, GrownRefl DEF StoreOK
<1>8. QED
  BY <1>4, <1>5, <1>6, <1>7 DEF Writer

-----------------------------------------------------------------------------
(* What the refresh reads.                                                 *)

LEMMA CountTyped ==
    ASSUME StoreOK, NEW f \in DOMAIN db, NEW g
    PROVE  /\ IsFiniteSet({i \in DOMAIN db[f].rows : Counted(db[f].rows[i], g)})
           /\ Count(f, g) \in Nat
<1> DEFINE S == {i \in DOMAIN db[f].rows : Counted(db[f].rows[i], g)}
           n == Len(db[f].rows)
<1>1. DOMAIN db[f].rows = 1..n /\ n \in Nat
  BY FileFacts
<1>2. IsFiniteSet(1..n)
  BY <1>1, FS_Interval
<1>3. S \in SUBSET (1..n)
  BY <1>1
<1> HIDE DEF S, n
<1>4. IsFiniteSet(S)
  BY <1>2, <1>3, FS_Subset
<1>5. Cardinality(S) \in Nat
  BY <1>4, FS_CardinalityType
<1>6. QED
  BY <1>4, <1>5 DEF S, Count

\* The rows the table is filled with.
LEMMA NewestTyped ==
    ASSUME StoreOK, conn \in DOMAIN db
    PROVE  /\ Newest \in Seq(Entry)
           /\ Len(Newest) \in Nat /\ Len(Newest) <= Limit
           /\ DOMAIN Newest = 1..Len(Newest)
           /\ \A i \in DOMAIN Newest :
                Newest[i].id \in IncidentId /\ RowOf(conn, Newest[i].id) # {}
<1> DEFINE rows == db[conn].rows
           back == Reverse(rows)
           n    == IF Len(back) < Limit THEN Len(back) ELSE Limit
<1>1. /\ rows \in Seq(RowType)
      /\ DOMAIN rows = 1..Len(rows)
      /\ Len(rows) \in Nat
  BY FileFacts
<1>2. /\ back \in [1..Len(rows) -> RowType]
      /\ \A i \in 1..Len(rows) : back[i] = rows[(Len(rows) - i) + 1]
  BY <1>1 DEF Reverse
<1>3. Len(back) = Len(rows)
  BY <1>1, <1>2
<1>4. n \in Nat /\ n <= Limit /\ n <= Len(rows)
  BY <1>1, <1>3, DashboardAssumption
<1>5. Newest = [i \in 1..n |-> [id |-> back[i].id, status |-> back[i].status]]
  BY DEF Newest
<1> HIDE DEF n, back
<1>6. \A i \in 1..n : /\ back[i] \in RowType
                      /\ (Len(rows) - i) + 1 \in DOMAIN rows
                      /\ back[i] = rows[(Len(rows) - i) + 1]
  BY <1>1, <1>2, <1>4
<1>7. \A i \in 1..n : [id |-> back[i].id, status |-> back[i].status] \in Entry
  BY <1>6 DEF RowType, Entry
<1>8. Newest \in [1..n -> Entry]
  BY <1>5, <1>7
<1>9. Newest \in Seq(Entry) /\ Len(Newest) = n /\ DOMAIN Newest = 1..n
  BY <1>4, <1>8
<1>10. ASSUME NEW i \in 1..n
       PROVE  Newest[i].id \in IncidentId /\ RowOf(conn, Newest[i].id) # {}
  <2>1. Newest[i].id = back[i].id
    BY <1>5
  <2>2. (Len(rows) - i) + 1 \in RowOf(conn, Newest[i].id)
    BY <1>6, <2>1 DEF RowOf
  <2>3. QED
    BY <1>6, <2>1, <2>2 DEF RowType
<1>11. QED
  BY <1>4, <1>9, <1>10

\* Where the cursor is put back.
LEMMA CursorFacts ==
    ASSUME NEW rows \in Seq(Entry)
    PROVE  /\ rows # << >> => CursorIn(rows) \in 1..Len(rows)
           /\ rows = << >> => CursorIn(rows) = 1
           /\ \/ rows[CursorIn(rows)].id = Selected
              \/ \A i \in DOMAIN rows : rows[i].id # Selected
<1> DEFINE there == {i \in DOMAIN rows : rows[i].id = Selected}
<1>1. DOMAIN rows = 1..Len(rows) /\ Len(rows) \in Nat
  OBVIOUS
<1>2. CASE there = {}
  <2>1. CursorIn(rows) = 1
    BY <1>2 DEF CursorIn
  <2>2. rows # << >> => Len(rows) # 0
    OBVIOUS
  <2>3. QED
    BY <1>1, <1>2, <2>1, <2>2
<1>3. CASE there # {}
  <2>1. CursorIn(rows) \in there
    BY <1>3 DEF CursorIn
  <2>2. rows # << >>
    BY <1>1, <1>3
  <2>3. QED
    BY <1>1, <2>1, <2>2
<1>4. QED
  BY <1>2, <1>3

\* What show_detail leaves in the panel.
LEMMA ShownFacts ==
    ASSUME StoreOK, detail \in Entry \cup {NULL}, NEW f \in DOMAIN db, NEW id \in IncidentId
    PROVE  /\ Shown(f, id) \in Entry \cup {NULL}
           /\ RowOf(f, id) # {} => Shown(f, id) # NULL /\ Shown(f, id).id = id
           /\ RowOf(f, id) = {} => Shown(f, id) = detail
<1>1. CASE RowOf(f, id) = {}
  BY <1>1 DEF Shown, StatusOf
<1>2. CASE RowOf(f, id) # {}
  <2>1. StatusOf(f, id) \in Status
    <3>1. \A i \in RowOf(f, id) : db[f].rows[i].status \in Status
      <4>1. \A i \in DOMAIN db[f].rows : db[f].rows[i] \in RowType
        BY FileFacts
      <4>2. QED
        BY <4>1 DEF RowOf, RowType
    <3>2. (CHOOSE i \in RowOf(f, id) : TRUE) \in RowOf(f, id)
      BY <1>2
    <3>3. QED
      BY <1>2, <3>1, <3>2 DEF StatusOf
  <2>2. StatusOf(f, id) # NULL
    BY <2>1, NullAssumption
  <2>3. Shown(f, id) = [id |-> id, status |-> StatusOf(f, id)]
    BY <2>2 DEF Shown
  <2>4. Shown(f, id) \in Entry
    BY <2>1, <2>3 DEF Entry
  <2>5. QED
    BY <1>2, <2>3, <2>4, NullAssumption
<1>3. QED
  BY <1>1, <1>2

\* The events not printed yet.
LEMMA UnprintedFacts ==
    ASSUME StoreOK, conn \in DOMAIN db, last_audit_id \in 0..MaxEvents
    PROVE  /\ Unprinted \in Seq(Nat \X Nat)
           /\ DOMAIN Unprinted = 1..Len(Unprinted)
           /\ \A k \in DOMAIN Unprinted : Unprinted[k] = <<conn, last_audit_id + k>>
           /\ Len(Unprinted) \in Nat
           /\ Unprinted # << >> => /\ Len(Unprinted) >= 1
                                   /\ db[conn].events = last_audit_id + Len(Unprinted)
<1> DEFINE n == IF db[conn].events < last_audit_id THEN 0
                ELSE db[conn].events - last_audit_id
<1>1. db[conn].events \in Nat /\ last_audit_id \in Nat /\ conn \in Nat
  BY FileFacts, DashboardAssumption
<1>2. n \in Nat /\ (n >= 1 => db[conn].events = last_audit_id + n)
  BY <1>1
<1>3. Unprinted = [k \in 1..n |-> <<conn, last_audit_id + k>>]
  BY DEF Unprinted, EventsAfter
<1> HIDE DEF n
<1>4. \A k \in 1..n : <<conn, last_audit_id + k>> \in Nat \X Nat
  BY <1>1
<1>5. Unprinted \in [1..n -> Nat \X Nat]
  BY <1>3, <1>4
<1>6. Unprinted \in Seq(Nat \X Nat) /\ Len(Unprinted) = n /\ DOMAIN Unprinted = 1..n
  BY <1>2, <1>5
<1>7. Unprinted # << >> => n # 0
  BY <1>6
<1>8. QED
  BY <1>2, <1>3, <1>6, <1>7

-----------------------------------------------------------------------------
(* Types, and what a refresh may rely on.                                  *)

Refresh == Reading \cup {"detail", "audit"}

LEMMA OneFile ==
    ASSUME NEW S, NEW x \in S
    PROVE  <<x>> \in Seq(S) /\ <<x>> # << >>
OBVIOUS

LEMMA InitTyped == Init => TypeOK /\ RefreshOK
<1> SUFFICES ASSUME Init PROVE TypeOK /\ RefreshOK
  OBVIOUS
<1>1. db \in Seq(File) /\ db # << >>
  <2> DEFINE file == [tables |-> TRUE, rows |-> << >>, events |-> 0]
  <2>1. file.rows \in Seq([id : IncidentId, hardware : Hardware, status : Status])
    OBVIOUS
  <2>2. 0 \in 0..MaxEvents
    BY DashboardAssumption
  <2>3. file \in File
    BY <2>1, <2>2 DEF File
  <2>4. db = <<file>>
    BY DEF Init
  <2> HIDE DEF file
  <2>5. QED
    BY <2>3, <2>4, OneFile
<1> USE DEF Init
<1>2. stats \in [Figure -> Nat]
  BY DEF NoFigures
<1>3. /\ table \in Seq(Entry) /\ Len(table) = 0
      /\ queue \in Seq(IncidentId) /\ Len(queue) = 0
      /\ panel \in Seq(Nat \X Nat)
  OBVIOUS
<1>4. TypeOK
  BY <1>2, <1>3, DashboardAssumption DEF TypeOK
<1>5. RefreshOK
  BY <1>1 DEF RefreshOK, Reading, Figure
<1>6. QED
  BY <1>4, <1>5

\* The application ending clears the screen.
LEMMA ExitTyped ==
    ASSUME StoreOK, Exit, UNCHANGED db
    PROVE  TypeOK' /\ RefreshOK'
<1> USE DEF Exit
<1>1. stats' \in [Figure -> Nat]
  BY DEF NoFigures
<1>2. /\ table' \in Seq(Entry) /\ Len(table') = 0
      /\ queue' \in Seq(IncidentId) /\ Len(queue') = 0
      /\ panel' \in Seq(Nat \X Nat)
  OBVIOUS
<1>3. TypeOK'
  BY <1>1, <1>2, DashboardAssumption DEF TypeOK
<1>4. RefreshOK'
  BY DEF RefreshOK, StoreOK, Reading, Figure
<1>5. QED
  BY <1>3, <1>4

LEMMA TypeStep ==
    ASSUME TypeOK, RefreshOK, [Next]_vars
    PROVE  TypeOK' /\ RefreshOK'
<1> USE DEF screen
<1>1. StoreOK
  BY DEF RefreshOK, StoreOK
<1>2. CASE Writer
  <2>1. /\ StoreOK'
        /\ \A f \in DOMAIN db : f \in DOMAIN db'
        /\ UNCHANGED <<pc, conn, opened, queue, last_audit_id, screen>>
    BY <1>1, <1>2, WriterStep
  <2>2. TypeOK'
    BY <2>1 DEF TypeOK
  <2>3. RefreshOK'
    BY <2>1 DEF RefreshOK, StoreOK
  <2>4. QED
    BY <2>2, <2>3
<1>3. CASE OpenFails \/ RowHighlightedFails \/ Quit
  BY <1>1, <1>3, ExitTyped DEF OpenFails, RowHighlightedFails, Quit
<1>4. CASE Mount
  BY <1>4 DEF Mount, TypeOK, RefreshOK, Reading, Figure
<1>5. CASE Open
  <2>1. Now \in DOMAIN db
    BY <1>1, FileFacts
  <2>2. QED
    BY <1>5, <2>1 DEF Open, TypeOK, RefreshOK, Reading, Figure
<1>6. CASE ReadFigures
  <2>1. PICK figure \in Figure, next \in {"actioned", "escalated", "hardware", "rows"} :
            ReadFigure(figure, next)
    BY <1>6 DEF ReadFigures, Figure
  <2>2. conn \in DOMAIN db
    BY <2>1 DEF ReadFigure, RefreshOK, Reading
  <2>3. stats' \in [Figure -> Nat]
    <3>1. Count(conn, figure) \in Nat
      BY <1>1, <2>2, CountTyped
    <3>2. QED
      BY <2>1, <3>1 DEF ReadFigure, TypeOK
  <2>4. TypeOK'
    BY <2>1, <2>3 DEF ReadFigure, TypeOK, Figure
  <2>5. RefreshOK'
    BY <2>1, <2>2 DEF ReadFigure, RefreshOK, Reading, Figure
  <2>6. QED
    BY <2>4, <2>5
<1>7. CASE Rebuild
  <2>1. conn \in DOMAIN db /\ Len(queue) + 2 <= MaxQueue /\ queue \in Seq(IncidentId)
    BY <1>7 DEF Rebuild, RefreshOK, Reading, TypeOK
  <2>2. /\ Newest \in Seq(Entry)
        /\ Len(Newest) \in Nat /\ Len(Newest) <= Limit
        /\ \A i \in 1..Len(Newest) : Newest[i].id \in IncidentId
    BY <1>1, <2>1, NewestTyped
  <2>3. cursor' \in 1..Len(table') \/ (table' = << >> /\ cursor' = 1)
    BY <1>7, <2>2, CursorFacts DEF Rebuild
  <2> DEFINE first == IF Newest = << >> THEN << >> ELSE <<Newest[1].id>>
             again == IF cursor' = 1 THEN << >> ELSE <<Newest[cursor'].id>>
  <2>4. first \in Seq(IncidentId) /\ Len(first) <= 1 /\ Len(first) \in Nat
    <3>1. CASE Newest = << >>
      BY <3>1
    <3>2. CASE Newest # << >>
      <4>1. 1 \in 1..Len(Newest)
        BY <2>2, <3>2
      <4>2. QED
        BY <2>2, <3>2, <4>1
    <3>3. QED
      BY <3>1, <3>2
  <2>5. again \in Seq(IncidentId) /\ Len(again) <= 1 /\ Len(again) \in Nat
    <3>1. CASE cursor' = 1
      BY <3>1
    <3>2. CASE cursor' # 1
      <4>1. cursor' \in 1..Len(Newest)
        BY <1>7, <2>3, <3>2 DEF Rebuild
      <4>2. QED
        BY <2>2, <3>2, <4>1
    <3>3. QED
      BY <3>1, <3>2
  <2>6. queue' = (queue \o first) \o again
    BY <1>7 DEF Rebuild
  <2> HIDE DEF first, again
  <2>7. queue' \in Seq(IncidentId) /\ Len(queue') <= MaxQueue
    BY <2>1, <2>4, <2>5, <2>6, DashboardAssumption
  <2>8. TypeOK'
    BY <1>7, <2>2, <2>3, <2>7 DEF Rebuild, TypeOK
  <2>9. RefreshOK'
    BY <1>7, <2>1, <2>2 DEF Rebuild, RefreshOK, Reading, Figure
  <2>10. QED
    BY <2>8, <2>9
<1>8. CASE ShowSelected
  <2>1. conn \in DOMAIN db /\ Selected \in IncidentId
    <3>1. table \in Seq(Entry) /\ table # << >> /\ cursor \in 1..Len(table)
      BY <1>8 DEF ShowSelected, RefreshOK, TypeOK
    <3>2. table[cursor] \in Entry
      BY <3>1
    <3>3. QED
      BY <1>8, <3>1, <3>2 DEF ShowSelected, RefreshOK, Selected, Entry
  <2>2. detail' \in Entry \cup {NULL}
    BY <1>1, <1>8, <2>1, ShownFacts DEF ShowSelected, TypeOK
  <2>3. QED
    BY <1>8, <2>1, <2>2 DEF ShowSelected, TypeOK, RefreshOK, Reading, Figure
<1>9. CASE PrintEvents
  <2>1. conn \in DOMAIN db /\ last_audit_id \in 0..MaxEvents /\ panel \in Seq(Nat \X Nat)
    BY <1>9 DEF PrintEvents, RefreshOK, TypeOK
  <2>2. Unprinted \in Seq(Nat \X Nat)
    BY <1>1, <2>1, UnprintedFacts
  <2>3. panel' \in Seq(Nat \X Nat)
    BY <1>9, <2>1, <2>2 DEF PrintEvents
  <2>4. last_audit_id' \in 0..MaxEvents
    BY <1>1, <1>9, <2>1, FileFacts DEF PrintEvents
  <2>5. QED
    BY <1>9, <2>3, <2>4 DEF PrintEvents, TypeOK, RefreshOK, Reading, Figure
<1>10. CASE Move
  <2>1. cursor' \in DOMAIN table /\ table \in Seq(Entry)
    BY <1>10 DEF Move, TypeOK
  <2>2. cursor' \in 1..Len(table) /\ table[cursor'].id \in IncidentId
    <3>1. cursor' \in 1..Len(table) /\ table[cursor'] \in Entry
      BY <2>1
    <3>2. QED
      BY <3>1 DEF Entry
  <2>3. queue' \in Seq(IncidentId) /\ Len(queue') = Len(queue) + 1
    BY <1>10, <2>2 DEF Move, TypeOK
  <2>4. Len(queue') <= MaxQueue
    BY <1>10, <2>3, DashboardAssumption DEF Move, TypeOK
  <2>5. QED
    BY <1>10, <2>2, <2>3, <2>4 DEF Move, TypeOK, RefreshOK, Reading, Figure
<1>11. CASE RowHighlighted
  <2>1. /\ queue \in Seq(IncidentId) /\ queue # << >> /\ Len(queue) <= MaxQueue
        /\ Now \in DOMAIN db
    BY <1>1, <1>11, FileFacts DEF RowHighlighted, TypeOK
  <2>2. /\ Head(queue) \in IncidentId
        /\ queue' \in Seq(IncidentId) /\ Len(queue') = Len(queue) - 1
    BY <1>11, <2>1 DEF RowHighlighted
  <2>3. Len(queue') <= MaxQueue
    BY <2>1, <2>2, DashboardAssumption
  <2>4. detail' \in Entry \cup {NULL}
    BY <1>1, <1>11, <2>1, <2>2, ShownFacts DEF RowHighlighted, TypeOK
  <2>5. QED
    BY <1>11, <2>2, <2>3, <2>4 DEF RowHighlighted, TypeOK, RefreshOK, Reading, Figure
<1>12. CASE UNCHANGED vars
  BY <1>12 DEF vars, TypeOK, RefreshOK
<1>13. QED
  BY <1>2, <1>3, <1>4, <1>5, <1>6, <1>7, <1>8, <1>9, <1>10, <1>11, <1>12
  DEF Next, RefreshStep, EventStep

-----------------------------------------------------------------------------
(* The audit panel.                                                        *)

LEMMA PanelStep ==
    ASSUME TypeOK, RefreshOK, PanelOK, PanelFaithful, [Next]_vars
    PROVE  PanelOK' /\ PanelFaithful'
<1> USE DEF screen
<1>1. /\ StoreOK
      /\ panel \in Seq(Nat \X Nat)
      /\ last_audit_id \in 0..MaxEvents
  BY DEF RefreshOK, StoreOK, TypeOK
<1>2. Now \in DOMAIN db /\ Now \in Nat /\ DOMAIN db = 1..Now
  BY <1>1, FileFacts
<1>3. CASE Writer
  <2>1. /\ Now <= Now' /\ Now' \in Nat
        /\ UNCHANGED <<pc, conn, last_audit_id, panel>>
    <3>1. StoreOK' /\ Now <= Now'
          /\ UNCHANGED <<pc, conn, opened, queue, last_audit_id, screen>>
      BY <1>1, <1>3, WriterStep
    <3>2. Now' \in Nat
      BY <3>1 DEF StoreOK, Now
    <3>3. QED
      BY <3>1, <3>2
  <2>2. panel # << >> => panel[Len(panel)] \in Nat \X Nat
    BY <1>1
  <2>3. PanelOK'
    BY <1>2, <2>1, <2>2 DEF PanelOK
  <2>4. PanelFaithful'
    BY <1>2, <2>1 DEF PanelFaithful
  <2>5. QED
    BY <2>3, <2>4
<1>4. CASE OpenFails \/ RowHighlightedFails \/ Quit
  <2>1. panel' = << >> /\ last_audit_id' = 0
    BY <1>4 DEF OpenFails, RowHighlightedFails, Quit, Exit
  <2>2. QED
    BY <2>1 DEF PanelOK, PanelFaithful
<1>5. CASE Open
  <2>1. UNCHANGED <<db, panel, last_audit_id>> /\ conn' = Now
    BY <1>5 DEF Open
  <2>2. PanelOK'
    BY <2>1 DEF PanelOK, Now
  <2>3. QED
    BY <2>1, <2>2 DEF PanelFaithful, Now
<1>6. CASE ReadFigures \/ Rebuild \/ ShowSelected
  <2>1. /\ UNCHANGED <<db, conn, panel, last_audit_id>>
        /\ pc \in Reading \cup {"detail", "audit"}
    BY <1>6 DEF ReadFigures, ReadFigure, Rebuild, ShowSelected, Reading, Figure
  <2>2. QED
    BY <2>1 DEF PanelOK, PanelFaithful, Now
<1>7. CASE Mount \/ Move \/ RowHighlighted
  <2>1. /\ UNCHANGED <<db, conn, panel, last_audit_id>>
        /\ pc' = "idle"
    BY <1>7 DEF Mount, Move, RowHighlighted
  <2>2. QED
    BY <2>1 DEF PanelOK, PanelFaithful, Now, Reading, Figure
<1>8. CASE PrintEvents
  <2> DEFINE more == Unprinted
             n    == Len(panel)
  <2>1. conn \in DOMAIN db /\ conn \in Nat /\ pc' = "idle" /\ UNCHANGED db /\ Now' = Now
    BY <1>2, <1>8 DEF PrintEvents, RefreshOK, Now
  <2>2. /\ more \in Seq(Nat \X Nat)
        /\ Len(more) \in Nat
        /\ DOMAIN more = 1..Len(more)
        /\ \A k \in 1..Len(more) : more[k] = <<conn, last_audit_id + k>>
        /\ more # << >> => /\ Len(more) >= 1
                           /\ db[conn].events = last_audit_id + Len(more)
    BY <1>1, <2>1, UnprintedFacts
  <2>3. /\ panel' = panel \o more
        /\ last_audit_id' = IF more = << >> THEN last_audit_id ELSE db[conn].events
    BY <1>8 DEF PrintEvents
  <2>4. CASE more = << >>
    <3>1. panel' = panel /\ last_audit_id' = last_audit_id
      BY <1>1, <2>3, <2>4
    <3>2. QED
      BY <2>1, <3>1 DEF PanelOK, PanelFaithful, Reading, Figure
  <2>5. CASE more # << >>
    <3> HIDE DEF more
    <3>1. /\ n \in Nat /\ last_audit_id \in Nat
          /\ Len(panel') = n + Len(more)
          /\ \A i \in 1..n : panel'[i] = panel[i]
          /\ \A k \in 1..Len(more) : panel'[n + k] = <<conn, last_audit_id + k>>
          /\ panel' # << >>
      <4>1. n \in Nat /\ last_audit_id \in Nat
        BY <1>1, DashboardAssumption
      <4>2. /\ Len(panel') = n + Len(more)
            /\ \A i \in 1..n : panel'[i] = panel[i]
            /\ \A k \in 1..Len(more) : panel'[n + k] = more[k]
        BY <1>1, <2>2, <2>3
      <4>3. Len(panel') # 0
        BY <2>2, <2>5, <4>1, <4>2
      <4>4. QED
        BY <2>2, <4>1, <4>2, <4>3
    <3>2. last_audit_id' = last_audit_id + Len(more)
      BY <2>2, <2>3, <2>5
    <3>3. panel'[Len(panel')] = <<conn, last_audit_id'>>
      BY <2>2, <2>5, <3>1, <3>2
    <3>4. PanelOK'
      BY <1>2, <2>1, <3>1, <3>3 DEF PanelOK, Reading, Figure
    <3>5. panel # << >> => /\ n >= 1
                           /\ panel[n][2] = last_audit_id
                           /\ panel[n][1] <= conn
                           /\ panel[n] \in Nat \X Nat
      BY <1>1, <1>8 DEF PanelOK, PrintEvents
    <3>6. ASSUME NEW i \in 1..(Len(panel') - 1)
          PROVE  \/ panel'[i + 1] = <<panel'[i][1], panel'[i][2] + 1>>
                 \/ panel'[i + 1][1] > panel'[i][1]
      <4>1. CASE i < n
        <5>1. i \in 1..(n - 1) /\ i \in 1..n /\ i + 1 \in 1..n
          BY <3>1, <4>1
        <5>2. panel'[i] = panel[i] /\ panel'[i + 1] = panel[i + 1]
          BY <3>1, <5>1
        <5>3. QED
          BY <5>1, <5>2 DEF PanelFaithful
      <4>2. CASE i = n
        <5>1. n >= 1 /\ panel # << >> /\ n \in 1..n /\ 1 \in 1..Len(more)
          BY <1>1, <2>2, <2>5, <3>1, <4>2
        <5>2. panel'[i] = panel[n] /\ panel'[i + 1] = <<conn, last_audit_id + 1>>
          BY <3>1, <4>2, <5>1
        <5>3. panel[n][1] = conn \/ conn > panel[n][1]
          BY <2>1, <3>5, <5>1
        <5>4. QED
          BY <3>5, <5>1, <5>2, <5>3
      <4>3. CASE i > n
        <5> DEFINE m == Len(more)
        <5>0. m \in Nat /\ n \in Nat /\ i \in 1..((n + m) - 1) /\ i > n
          BY <2>2, <3>1, <4>3
        <5> HIDE DEF m, n
        <5>1. /\ i - n \in 1..m /\ (i - n) + 1 \in 1..m
              /\ i = n + (i - n) /\ i + 1 = n + ((i - n) + 1)
          BY <5>0
        <5> USE DEF m
        <5>2. /\ panel'[i] = <<conn, last_audit_id + (i - n)>>
              /\ panel'[i + 1] = <<conn, last_audit_id + ((i - n) + 1)>>
          BY <3>1, <5>1
        <5>3. QED
          BY <3>1, <5>1, <5>2
      <4>4. QED
        BY <3>1, <4>1, <4>2, <4>3
    <3>7. Now = 1 => panel'[1] = <<1, 1>>
      <4>1. CASE panel = << >>
        <5>1. n = 0 /\ last_audit_id = 0 /\ 1 \in 1..Len(more)
          BY <2>2, <2>5, <4>1 DEF PanelOK
        <5>2. panel'[n + 1] = <<conn, last_audit_id + 1>>
          BY <3>1, <5>1
        <5>3. Now = 1 => conn = 1
          BY <1>2, <2>1
        <5>4. QED
          BY <5>1, <5>2, <5>3
      <4>2. CASE panel # << >>
        <5>1. 1 \in 1..n
          BY <3>1, <3>5, <4>2
        <5>2. QED
          BY <3>1, <4>2, <5>1 DEF PanelFaithful
      <4>3. QED
        BY <4>1, <4>2
    <3>8. PanelFaithful'
      BY <2>1, <3>6, <3>7 DEF PanelFaithful
    <3>9. QED
      BY <3>4, <3>8
  <2>6. QED
    BY <2>4, <2>5
<1>9. CASE UNCHANGED vars
  BY <1>9 DEF vars, PanelOK, PanelFaithful, Now
<1>10. QED
  BY <1>3, <1>4, <1>5, <1>6, <1>7, <1>8, <1>9 DEF Next, RefreshStep, EventStep

-----------------------------------------------------------------------------
(* The figures.                                                            *)

\* What a writer does to a file loses no row a figure counts.
LEMMA CountGrows ==
    ASSUME NEW r \in Seq(RowType), NEW s \in Seq(RowType), Grown(r, s), NEW g \in Figure
    PROVE  Cardinality({i \in DOMAIN r : Counted(r[i], g)})
              <= Cardinality({i \in DOMAIN s : Counted(s[i], g)})
<1> DEFINE R == {i \in DOMAIN r : Counted(r[i], g)}
           S == {i \in DOMAIN s : Counted(s[i], g)}
<1>1. /\ DOMAIN r = 1..Len(r) /\ Len(r) \in Nat
      /\ DOMAIN s = 1..Len(s) /\ Len(s) \in Nat
  OBVIOUS
<1>2. ASSUME NEW i \in R PROVE i \in S
  <2>1. i \in DOMAIN r /\ i \in DOMAIN s /\ Counted(r[i], g)
    BY <1>1 DEF Grown
  <2>2. /\ s[i].hardware = r[i].hardware
        /\ s[i].status = r[i].status \/ r[i].status = "pending"
    BY <2>1 DEF Grown
  <2>3. CASE g = "total"
    BY <2>1, <2>3 DEF Counted
  <2>4. CASE g = "actioned"
    BY <2>1, <2>2, <2>4 DEF Counted
  <2>5. CASE g = "escalated"
    BY <2>1, <2>2, <2>5 DEF Counted
  <2>6. CASE g = "hardware"
    BY <2>1, <2>2, <2>6 DEF Counted
  <2>7. QED
    BY <2>3, <2>4, <2>5, <2>6 DEF Figure
<1>3. IsFiniteSet(S)
  <2>1. IsFiniteSet(1..Len(s))
    BY <1>1, FS_Interval
  <2>2. S \in SUBSET (1..Len(s))
    BY <1>1
  <2> HIDE DEF S
  <2>3. QED
    BY <2>1, <2>2, FS_Subset
<1>4. R \in SUBSET S
  BY <1>2
<1> HIDE DEF R, S
<1>5. Cardinality(R) <= Cardinality(S)
  BY <1>3, <1>4, FS_Subset
<1>6. QED
  BY <1>5 DEF R, S

LEMMA FiguresStep ==
    ASSUME TypeOK, RefreshOK, FiguresOK, [Next]_vars
    PROVE  FiguresOK'
<1> USE DEF screen
<1>1. StoreOK
  BY DEF RefreshOK, StoreOK
<1>2. pc \in Reading => conn \in DOMAIN db /\ \A f \in Figure : Count(conn, f) \in Nat
  BY <1>1, CountTyped DEF RefreshOK
<1>3. CASE Writer
  <2>1. /\ UNCHANGED <<pc, conn, opened, stats>>
        /\ StoreOK'
        /\ \A f \in DOMAIN db : f \in DOMAIN db' /\ Grown(db[f].rows, db'[f].rows)
    BY <1>1, <1>3, WriterStep
  <2>2. ASSUME pc \in Reading, NEW f \in Figure
        PROVE  Count(conn, f) <= Count(conn, f)' /\ Count(conn, f)' \in Nat
    <3>1. conn \in DOMAIN db /\ conn \in DOMAIN db'
      BY <1>2, <2>1, <2>2
    <3> DEFINE r == db[conn].rows
               s == db'[conn].rows
    <3>2. r \in Seq(RowType)
      BY <1>1, <3>1, FileFacts
    <3>3. s \in Seq(RowType)
      <4>1. db'[conn] \in File
        BY <2>1, <3>1 DEF StoreOK
      <4>2. QED
        BY <4>1 DEF File, RowType
    <3>4. Grown(r, s)
      BY <2>1, <3>1
    <3> HIDE DEF r, s
    <3>5. Cardinality({i \in DOMAIN r : Counted(r[i], f)})
             <= Cardinality({i \in DOMAIN s : Counted(s[i], f)})
      BY <3>2, <3>3, <3>4, CountGrows
    <3>6. Cardinality({i \in DOMAIN s : Counted(s[i], f)}) \in Nat
      <4>1. DOMAIN s = 1..Len(s) /\ Len(s) \in Nat
        BY <3>3
      <4>2. IsFiniteSet(1..Len(s))
        BY <4>1, FS_Interval
      <4> DEFINE S == {i \in DOMAIN s : Counted(s[i], f)}
      <4>3. S \in SUBSET (1..Len(s))
        BY <4>1
      <4> HIDE DEF S
      <4>4. IsFiniteSet(S)
        BY <4>2, <4>3, FS_Subset
      <4>5. Cardinality(S) \in Nat
        BY <4>4, FS_CardinalityType
      <4>6. QED
        BY <4>5 DEF S
    <3>7. Count(conn, f) = Cardinality({i \in DOMAIN r : Counted(r[i], f)})
      BY DEF Count, r
    <3>8. Count(conn, f)' = Cardinality({i \in DOMAIN s : Counted(s[i], f)})
      BY <2>1 DEF Count, s
    <3>9. QED
      BY <3>5, <3>6, <3>7, <3>8
  <2>3. ASSUME pc \in Reading, NEW f \in Figure
        PROVE  /\ opened[f] \in Nat
               /\ opened[f] <= Count(conn, f)'
               /\ f \in ReadBefore(pc) =>
                    opened[f] <= stats[f] /\ stats[f] <= Count(conn, f)'
    <3>1. /\ opened[f] \in Nat
          /\ opened[f] <= Count(conn, f)
          /\ f \in ReadBefore(pc) => opened[f] <= stats[f] /\ stats[f] <= Count(conn, f)
      BY <2>3 DEF FiguresOK
    <3>2. Count(conn, f) \in Nat /\ stats[f] \in Nat
      BY <1>2, <2>3 DEF TypeOK
    <3>3. Count(conn, f) <= Count(conn, f)' /\ Count(conn, f)' \in Nat
      BY <2>2, <2>3
    <3>4. QED
      BY <3>1, <3>2, <3>3
  <2>4. QED
    BY <2>1, <2>3 DEF FiguresOK, ReadBefore
<1>4. CASE Open
  <2>1. Now \in DOMAIN db
    BY <1>1, FileFacts
  <2>2. \A f \in Figure : Count(Now, f) \in Nat
    BY <1>1, <2>1, CountTyped
  <2>3. /\ UNCHANGED db /\ conn' = Now /\ pc' = "total"
        /\ \A f \in Figure : opened'[f] = Count(Now, f)
    BY <1>4 DEF Open
  <2>4. \A f \in Figure : Count(conn, f)' = Count(Now, f)
    BY <2>3 DEF Count
  <2>5. QED
    BY <2>2, <2>3, <2>4 DEF FiguresOK, ReadBefore
<1>5. CASE ReadFigures
  <2>1. PICK figure \in Figure, next \in {"actioned", "escalated", "hardware", "rows"} :
            /\ ReadFigure(figure, next)
            /\ \A f \in Figure : f \in ReadBefore(next) => f = figure \/ f \in ReadBefore(figure)
    BY <1>5 DEF ReadFigures, Figure, ReadBefore
  <2>2. /\ UNCHANGED <<db, conn, opened>> /\ pc = figure /\ pc' = next
        /\ stats' = [stats EXCEPT ![figure] = Count(conn, figure)]
    BY <2>1 DEF ReadFigure
  <2>3. pc \in Reading
    BY <2>2 DEF Reading
  <2>4. \A f \in Figure : Count(conn, f)' = Count(conn, f)
    BY <2>2 DEF Count
  <2>5. \A f \in Figure : stats'[f] = IF f = figure THEN Count(conn, f) ELSE stats[f]
    BY <2>2 DEF TypeOK
  <2>6. ASSUME NEW f \in Figure
        PROVE  /\ opened'[f] \in Nat
               /\ opened'[f] <= Count(conn, f)'
               /\ f \in ReadBefore(next) =>
                    opened'[f] <= stats'[f] /\ stats'[f] <= Count(conn, f)'
    <3>1. /\ opened[f] \in Nat
          /\ opened[f] <= Count(conn, f)
          /\ f \in ReadBefore(pc) => opened[f] <= stats[f] /\ stats[f] <= Count(conn, f)
      BY <2>3 DEF FiguresOK
    <3>2. Count(conn, f) \in Nat
      BY <1>2, <2>3
    <3>3. CASE f = figure
      BY <2>2, <2>4, <2>5, <3>1, <3>2, <3>3
    <3>4. CASE f # figure
      BY <2>1, <2>2, <2>4, <2>5, <3>1, <3>4
    <3>5. QED
      BY <3>3, <3>4
  <2>7. QED
    BY <2>2, <2>6 DEF FiguresOK
<1>6. CASE OpenFails \/ RowHighlightedFails \/ Quit \/ Mount \/ Rebuild \/ ShowSelected
             \/ PrintEvents \/ Move \/ RowHighlighted
  <2>1. pc' \in {"exited", "idle", "detail", "audit"}
    BY <1>6 DEF OpenFails, RowHighlightedFails, Quit, Exit, Mount, Rebuild, ShowSelected,
                PrintEvents, Move, RowHighlighted
  <2>2. QED
    BY <2>1 DEF FiguresOK, Reading, Figure
<1>7. CASE UNCHANGED vars
  BY <1>7 DEF vars, FiguresOK, Count
<1>8. QED
  BY <1>3, <1>4, <1>5, <1>6, <1>7 DEF Next, RefreshStep, EventStep

-----------------------------------------------------------------------------
(* The selection.                                                          *)

\* A row of the newest file is not lost to a writer, and none appears for an
\* incident some file knew.
LEMMA RowsUnderWriters ==
    ASSUME StoreOK, Writer, NEW id
    PROVE  /\ \A f \in DOMAIN db : RowOf(f, id) # {} => f \in DOMAIN db' /\ RowOf(f, id)' # {}
           /\ (\E f \in DOMAIN db : RowOf(f, id) # {}) /\ RowOf(Now, id)' # {}
                => RowOf(Now, id) # {}
<1>1. /\ StoreOK'
      /\ \A f \in DOMAIN db :
           /\ f \in DOMAIN db'
           /\ Grown(db[f].rows, db'[f].rows)
           /\ Fresh(db[f].rows, db'[f].rows)
      /\ Now' # Now => db'[Now'].rows = << >>
  BY WriterStep
<1>2. /\ Now \in DOMAIN db
      /\ \A f \in DOMAIN db : /\ DOMAIN db[f].rows = 1..Len(db[f].rows)
                              /\ Len(db[f].rows) \in Nat
  BY FileFacts
<1>3. \A f \in DOMAIN db : /\ DOMAIN db'[f].rows = 1..Len(db'[f].rows)
                           /\ Len(db'[f].rows) \in Nat
  <2>1. ASSUME NEW f \in DOMAIN db PROVE db'[f].rows \in Seq(RowType)
    <3>1. db'[f] \in File
      BY <1>1 DEF StoreOK
    <3>2. QED
      BY <3>1 DEF File, RowType
  <2>2. QED
    BY <2>1
<1>4. ASSUME NEW f \in DOMAIN db, RowOf(f, id) # {}
      PROVE  f \in DOMAIN db' /\ RowOf(f, id)' # {}
  <2>1. PICK i \in DOMAIN db[f].rows : db[f].rows[i].id = id
    BY <1>4 DEF RowOf
  <2>2. i \in DOMAIN db'[f].rows /\ db'[f].rows[i].id = id
    BY <1>1, <1>2, <1>3, <2>1 DEF Grown
  <2>3. QED
    BY <1>1, <2>2 DEF RowOf
<1>5. ASSUME NEW f \in DOMAIN db, RowOf(f, id) # {}, RowOf(Now, id)' # {}
      PROVE  RowOf(Now, id) # {}
  <2>1. PICK i \in DOMAIN db'[Now'].rows : db'[Now'].rows[i].id = id
    BY <1>5 DEF RowOf
  <2>2. Now' = Now
    BY <1>1, <2>1
  <2>3. i \in DOMAIN db[Now].rows
    BY <1>1, <1>2, <1>5, <2>1, <2>2 DEF Fresh
  <2>4. db[Now].rows[i].id = id
    BY <1>1, <1>2, <2>1, <2>2, <2>3 DEF Grown
  <2>5. QED
    BY <2>3, <2>4 DEF RowOf
<1>6. QED
  BY <1>4, <1>5

\* The last row event a rebuild posts is about the row the cursor is put on.
LEMMA RebuildPosts ==
    ASSUME TypeOK, RefreshOK, Rebuild, Newest # << >>
    PROVE  queue' # << >> /\ queue'[Len(queue')] = Newest[cursor'].id
<1>1. StoreOK /\ conn \in DOMAIN db /\ queue \in Seq(IncidentId)
  BY DEF Rebuild, RefreshOK, StoreOK, Reading, TypeOK
<1>2. /\ Newest \in Seq(Entry) /\ Len(Newest) \in Nat
      /\ \A i \in 1..Len(Newest) : Newest[i].id \in IncidentId
  BY <1>1, NewestTyped
<1> DEFINE top == Newest[1].id
           sel == Newest[cursor'].id
<1>3. cursor' \in 1..Len(Newest) /\ 1 \in 1..Len(Newest)
  BY <1>2, CursorFacts DEF Rebuild
<1>4. top \in IncidentId /\ sel \in IncidentId
  BY <1>2, <1>3
<1>5. queue' = (queue \o <<top>>) \o (IF cursor' = 1 THEN << >> ELSE <<sel>>)
  BY DEF Rebuild
<1>6. CASE cursor' = 1
  <2>1. top = sel
    BY <1>6
  <2> HIDE DEF top, sel
  <2>2. queue' = queue \o <<sel>>
    BY <1>1, <1>4, <1>5, <1>6, <2>1
  <2>3. Len(queue') = Len(queue) + 1 /\ queue'[Len(queue) + 1] = sel /\ queue' # << >>
    BY <1>1, <1>4, <2>2
  <2>4. QED
    BY <2>3 DEF sel
<1>7. CASE cursor' # 1
  <2> DEFINE q == queue \o <<top>>
  <2> HIDE DEF top, sel
  <2>1. q \in Seq(IncidentId)
    BY <1>1, <1>4
  <2>2. queue' = q \o <<sel>>
    BY <1>5, <1>7
  <2> HIDE DEF q
  <2>3. Len(queue') = Len(q) + 1 /\ queue'[Len(q) + 1] = sel /\ queue' # << >>
    BY <1>4, <2>1, <2>2
  <2>4. QED
    BY <2>3 DEF sel
<1>8. QED
  BY <1>6, <1>7

LEMMA SelectionStep ==
    ASSUME TypeOK, RefreshOK, SelectionOK, [Next]_vars
    PROVE  SelectionOK'
<1> USE DEF screen
<1>1. /\ StoreOK
      /\ table \in Seq(Entry) /\ queue \in Seq(IncidentId)
      /\ table # << >> => cursor \in DOMAIN table
  BY DEF RefreshOK, StoreOK, TypeOK
<1>2. Now \in DOMAIN db
  BY <1>1, FileFacts
<1>3. CASE Writer
  <2>1. UNCHANGED <<pc, queue, table, cursor, detail>>
    BY <1>1, <1>3, WriterStep
  <2>2. Selected' = Selected
    BY <2>1 DEF Selected
  <2>3. ASSUME NEW i \in DOMAIN table
        PROVE  \E f \in DOMAIN db' : RowOf(f, table[i].id)' # {}
    <3> DEFINE id == table[i].id
    <3>1. PICK f \in DOMAIN db : RowOf(f, id) # {}
      BY DEF SelectionOK
    <3> HIDE DEF id
    <3>2. f \in DOMAIN db' /\ {k \in DOMAIN db'[f].rows : db'[f].rows[k].id = id} # {}
      BY <1>1, <1>3, <3>1, RowsUnderWriters DEF RowOf
    <3>3. QED
      BY <2>1, <3>2 DEF RowOf, id
  <2>4. ASSUME table # << >>
        PROVE  RowOf(Now, Selected)' # {} => RowOf(Now, Selected) # {}
    <3> DEFINE id == Selected
    <3>1. \E f \in DOMAIN db : RowOf(f, id) # {}
      BY <1>1, <2>4 DEF SelectionOK, Selected
    <3> HIDE DEF id
    <3>2. {k \in DOMAIN db'[Now'].rows : db'[Now'].rows[k].id = id} # {}
             => RowOf(Now, id) # {}
      BY <1>1, <1>3, <3>1, RowsUnderWriters DEF RowOf
    <3>3. QED
      BY <2>2, <3>2 DEF RowOf, id
  <2>5. QED
    BY <2>1, <2>2, <2>3, <2>4 DEF SelectionOK
<1>4. CASE OpenFails \/ RowHighlightedFails \/ Quit
  <2>1. table' = << >>
    BY <1>4 DEF OpenFails, RowHighlightedFails, Quit, Exit
  <2>2. QED
    BY <2>1 DEF SelectionOK
<1>5. CASE Mount
  <2>1. table' = << >>
    BY <1>5 DEF Mount, SelectionOK
  <2>2. QED
    BY <2>1 DEF SelectionOK
<1>6. CASE Open \/ ReadFigures
  <2>1. UNCHANGED <<db, table, cursor, queue, detail>> /\ pc' \in Reading
    BY <1>6 DEF Open, ReadFigures, ReadFigure, Reading, Figure
  <2>2. \A i \in DOMAIN table' : \E f \in DOMAIN db' : RowOf(f, table[i].id)' # {}
    BY <2>1 DEF SelectionOK, RowOf
  <2>3. pc' \notin {"exited", "detail", "audit", "idle"}
    BY <2>1 DEF Reading, Figure
  <2>4. QED
    BY <2>1, <2>2, <2>3 DEF SelectionOK
<1>7. CASE Rebuild
  <2>1. conn \in DOMAIN db /\ UNCHANGED db /\ table' = Newest /\ pc' \in {"audit", "detail"}
    BY <1>7 DEF Rebuild, RefreshOK, Reading
  <2>2. \A i \in DOMAIN Newest : RowOf(conn, Newest[i].id) # {}
    BY <1>1, <2>1, NewestTyped
  <2>3. \A i \in DOMAIN table' : \E f \in DOMAIN db' : RowOf(f, table[i].id)' # {}
    BY <2>1, <2>2 DEF RowOf
  <2>4. table' # << >> => queue' # << >> /\ queue'[Len(queue')] = Selected'
    BY <1>7, <2>1, RebuildPosts DEF Selected
  <2>5. QED
    BY <2>1, <2>3, <2>4 DEF SelectionOK
<1>8. CASE ShowSelected \/ PrintEvents
  <2>1. /\ UNCHANGED <<db, table, cursor, queue>>
        /\ pc \in {"detail", "audit"} /\ pc' \in {"audit", "idle"}
    BY <1>8 DEF ShowSelected, PrintEvents
  <2>2. Selected' = Selected
    BY <2>1 DEF Selected
  <2>3. \A i \in DOMAIN table' : \E f \in DOMAIN db' : RowOf(f, table[i].id)' # {}
    BY <2>1 DEF SelectionOK, RowOf
  <2>4. table' # << >> => queue' # << >> /\ queue'[Len(queue')] = Selected'
    BY <2>1, <2>2 DEF SelectionOK
  <2>5. QED
    BY <2>1, <2>3, <2>4 DEF SelectionOK
<1>9. CASE Move
  <2>1. /\ UNCHANGED <<db, pc, table>> /\ pc = "idle"
        /\ cursor' \in DOMAIN table
        /\ queue' = Append(queue, table[cursor'].id)
    BY <1>9 DEF Move
  <2>2. table # << >> /\ Selected' = table[cursor'].id
    BY <1>1, <2>1 DEF Selected
  <2> DEFINE id == table[cursor'].id
  <2>3. id \in IncidentId
    <3>1. table[cursor'] \in Entry
      BY <1>1, <2>1
    <3>2. QED
      BY <3>1 DEF Entry
  <2> HIDE DEF id
  <2>4. queue' = Append(queue, id)
    BY <2>1 DEF id
  <2>5. queue' # << >> /\ queue'[Len(queue')] = id
    BY <1>1, <2>3, <2>4
  <2>6. \A i \in DOMAIN table' : \E f \in DOMAIN db' : RowOf(f, table[i].id)' # {}
    BY <2>1 DEF SelectionOK, RowOf
  <2>7. queue' # << >> /\ queue'[Len(queue')] = Selected'
    BY <2>2, <2>5 DEF id
  <2>8. QED
    BY <2>1, <2>6, <2>7 DEF SelectionOK
<1>10. CASE RowHighlighted
  <2>1. /\ UNCHANGED <<db, pc, table, cursor>> /\ pc = "idle"
        /\ queue # << >> /\ queue' = Tail(queue)
        /\ detail' = Shown(Now, Head(queue))
    BY <1>10 DEF RowHighlighted
  <2>2. Selected' = Selected
    BY <2>1 DEF Selected
  <2>3. \A i \in DOMAIN table' : \E f \in DOMAIN db' : RowOf(f, table[i].id)' # {}
    BY <2>1 DEF SelectionOK, RowOf
  <2>4. ASSUME table # << >>, queue' # << >>
        PROVE  queue'[Len(queue')] = Selected
    <3>1. queue[Len(queue)] = Selected
      BY <2>1, <2>4 DEF SelectionOK
    <3>2. Len(queue') = Len(queue) - 1 /\ Len(queue') # 0 /\ Len(queue') \in Nat
      BY <1>1, <2>1, <2>4
    <3>3. queue'[Len(queue')] = queue[Len(queue)]
      BY <1>1, <2>1, <3>2
    <3>4. QED
      BY <3>1, <3>3
  <2>5. ASSUME table # << >>, queue' = << >>, RowOf(Now, Selected)' # {}
        PROVE  detail' # NULL /\ detail'.id = Selected
    <3>1. queue[Len(queue)] = Selected
      BY <2>1, <2>5 DEF SelectionOK
    <3>2. Len(queue) = 1
      <4>1. Len(queue) \in Nat /\ Len(queue') = Len(queue) - 1
        BY <1>1, <2>1
      <4>2. Len(queue') = Len(<< >>)
        BY <2>5
      <4>3. Len(<< >>) = 0
        OBVIOUS
      <4>4. QED
        BY <4>1, <4>2, <4>3
    <3>3. Head(queue) = Selected
      BY <1>1, <3>1, <3>2
    <3>4. Selected \in IncidentId
      BY <1>1, <2>1, <3>3
    <3>5. RowOf(Now, Selected) # {}
      BY <2>1, <2>2, <2>5 DEF RowOf, Now
    <3>6. detail \in Entry \cup {NULL}
      BY DEF TypeOK
    <3>7. QED
      BY <1>1, <1>2, <2>1, <3>3, <3>4, <3>5, <3>6, ShownFacts
  <2>6. QED
    BY <2>1, <2>2, <2>3, <2>4, <2>5 DEF SelectionOK
<1>11. CASE UNCHANGED vars
  <2>1. UNCHANGED <<db, pc, table, cursor, queue, detail>>
    BY <1>11 DEF vars
  <2>2. Selected' = Selected
    BY <2>1 DEF Selected
  <2>3. \A i \in DOMAIN table' : \E f \in DOMAIN db' : RowOf(f, table[i].id)' # {}
    BY <2>1 DEF SelectionOK, RowOf
  <2>4. RowOf(Now, Selected)' = RowOf(Now, Selected)
    BY <2>1, <2>2 DEF RowOf, Now
  <2>5. QED
    BY <2>1, <2>2, <2>3, <2>4 DEF SelectionOK
<1>12. QED
  BY <1>3, <1>4, <1>5, <1>6, <1>7, <1>8, <1>9, <1>10, <1>11 DEF Next, RefreshStep, EventStep

-----------------------------------------------------------------------------
(* The theorems.                                                           *)

LEMMA InitInv == Init => IInv
<1> SUFFICES ASSUME Init PROVE IInv
  OBVIOUS
<1>1. TypeOK /\ RefreshOK
  BY InitTyped
<1>2. pc = "idle" /\ table = << >> /\ panel = << >> /\ last_audit_id = 0
  BY DEF Init
<1>3. FiguresOK
  BY <1>2 DEF FiguresOK, Reading, Figure
<1>4. PanelOK
  BY <1>2 DEF PanelOK
<1>5. PanelFaithful
  BY <1>2 DEF PanelFaithful
<1>6. SelectionOK
  BY <1>2 DEF SelectionOK
<1>7. QED
  BY <1>1, <1>3, <1>4, <1>5, <1>6 DEF IInv

\* The invariant holds of every run of the dashboard and its writers.
THEOREM Inductive == Spec => []IInv
<1>1. IInv /\ [Next]_vars => IInv'
  BY TypeStep, FiguresStep, PanelStep, SelectionStep DEF IInv
<1>2. QED
  BY InitInv, <1>1, PTL DEF Spec

\* What the screen, the queue and the two cursors hold (TypeOK): the table's
\* cursor is on one of its rows, and the queue never outgrows its bound.
THEOREM TypeCorrect == Spec => []TypeOK
<1>1. IInv => TypeOK
  BY DEF IInv
<1>2. QED
  BY Inductive, <1>1, PTL

\* From the first event of a file that it prints, the audit panel repeats, skips
\* and reorders none.  After a reset it may begin late.
THEOREM PanelIsFaithful == Spec => []PanelFaithful
<1>1. IInv => PanelFaithful
  BY DEF IInv
<1>2. QED
  BY Inductive, <1>1, PTL

\* With no row event waiting, the detail panel is about the selected incident.
THEOREM DetailFollows == Spec => []DetailFollowsCursor
<1>1. IInv => DetailFollowsCursor
  <2> SUFFICES ASSUME IInv, pc = "idle", queue = << >>, table # << >>,
                      StatusOf(Now, Selected) # NULL
               PROVE  detail # NULL /\ detail.id = Selected
    BY DEF DetailFollowsCursor
  <2>1. RowOf(Now, Selected) # {}
    BY DEF StatusOf
  <2>2. QED
    BY <2>1 DEF IInv, SelectionOK
<1>2. QED
  BY Inductive, <1>1, PTL

\* Each figure shown was the true one at some moment of its refresh.
THEOREM FiguresAreOfTheRefresh == Spec => []FiguresOfTheRefresh
<1>1. IInv => FiguresOfTheRefresh
  <2> SUFFICES ASSUME IInv, pc = "rows", NEW f \in Figure
               PROVE  opened[f] <= stats[f] /\ stats[f] <= Count(conn, f)
    BY DEF FiguresOfTheRefresh
  <2>1. f \in ReadBefore(pc) /\ pc \in Reading
    BY DEF ReadBefore, Reading
  <2>2. QED
    BY <2>1 DEF IInv, FiguresOK
<1>2. QED
  BY Inductive, <1>1, PTL

\* A refresh does not move the selection from an incident it still shows.
THEOREM SelectionIsKept == Spec => SelectionKept
<1> USE DEF screen
<1> DEFINE Kept == \/ Selected = NULL
                   \/ Selected' = Selected
                   \/ Move
                   \/ \A i \in DOMAIN table' : table'[i].id # Selected
<1>1. IInv /\ [Next]_vars => [Kept]_vars
  <2> SUFFICES ASSUME IInv, Next PROVE Kept
    OBVIOUS
  <2>1. TypeOK /\ RefreshOK /\ StoreOK
    BY DEF IInv, RefreshOK, StoreOK
  <2>2. CASE Rebuild
    <3>1. conn \in DOMAIN db
      BY <2>1, <2>2 DEF Rebuild, RefreshOK, Reading
    <3>2. Newest \in Seq(Entry) /\ DOMAIN Newest = 1..Len(Newest)
      BY <2>1, <3>1, NewestTyped
    <3>3. \/ Newest[CursorIn(Newest)].id = Selected
          \/ \A i \in DOMAIN Newest : Newest[i].id # Selected
      BY <3>2, CursorFacts
    <3>4. table' = Newest /\ cursor' = CursorIn(Newest)
      BY <2>2 DEF Rebuild
    <3>5. CASE Newest = << >>
      BY <3>2, <3>4, <3>5
    <3>6. CASE Newest # << >>
      BY <3>3, <3>4, <3>6 DEF Selected
    <3>7. QED
      BY <3>5, <3>6
  <2>3. CASE OpenFails \/ RowHighlightedFails \/ Quit
    <3>1. table' = << >>
      BY <2>3 DEF OpenFails, RowHighlightedFails, Quit, Exit
    <3>2. QED
      BY <3>1
  <2>4. CASE Writer
    <3>1. UNCHANGED <<table, cursor>>
      BY <2>1, <2>4, WriterStep
    <3>2. QED
      BY <3>1 DEF Selected
  <2>5. CASE Mount \/ Open \/ ReadFigures \/ ShowSelected \/ PrintEvents \/ RowHighlighted
    <3>1. UNCHANGED <<table, cursor>>
      BY <2>5 DEF Mount, Open, ReadFigures, ReadFigure, ShowSelected, PrintEvents,
                  RowHighlighted
    <3>2. QED
      BY <3>1 DEF Selected
  <2>6. CASE Move
    BY <2>6
  <2>7. QED
    BY <2>2, <2>3, <2>4, <2>5, <2>6 DEF Next, RefreshStep, EventStep
<1>2. QED
  BY Inductive, <1>1, PTL DEF Spec, SelectionKept

=============================================================================
