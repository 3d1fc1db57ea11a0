----------------------------- MODULE Dashboard ------------------------------
(***************************************************************************)
(* The terminal dashboard (tui.py) beside whatever writes the store.  It   *)
(* reads with one SELECT per figure and no transaction, so the writers     *)
(* interleave with every step of a refresh; it remembers, from one refresh *)
(* to the next, the incident under the cursor and the last audit event it  *)
(* printed.  reset_demo.sh may unlink the database under both of them.     *)
(***************************************************************************)
EXTENDS Naturals, Sequences, SequencesExt, FiniteSets

CONSTANTS
    NULL,
    IncidentId,     \* the uuid4 strings
    Hardware,       \* what hardware_involved may be
    Outcome,        \* what may become of an incident
    Limit,          \* rows the table shows: LIMIT 30
    MaxEvents,      \* bound: audit events a file holds
    MaxResets,      \* bound: times the database file is removed
    MaxQueue        \* bound: row events waiting in the application's queue

ASSUME DashboardAssumption ==
    /\ Hardware \subseteq BOOLEAN
    /\ Outcome \subseteq {"success", "failed", "escalated"}
    /\ Limit \in Nat \ {0}
    /\ MaxEvents \in Nat
    /\ MaxQueue \in Nat /\ MaxQueue >= 3
    /\ NULL \notin IncidentId

VARIABLES
    db,             \* the files DB_PATH named, in time order: the last is there now
    pc,             \* "idle", a step of refresh_data, or "exited"
    conn,           \* the file the refresh's connection is open on
    stats,          \* StatsBar: the four figures on screen
    opened,         \* HISTORY: what the figures were when this refresh began
    table,          \* the incidents table: the row keys and the outcomes shown
    cursor,         \* cursor_coordinate, as a position in table
    queue,          \* RowHighlighted events not handled yet: their row keys
    detail,         \* the detail panel: an incident and the state it was in
    panel,          \* the audit panel: <<file, event id>>, in order of printing
    last_audit_id   \* _last_audit_id

screen == <<stats, table, cursor, detail, panel>>
vars   == <<db, pc, conn, opened, queue, last_audit_id, screen>>

-----------------------------------------------------------------------------
(* The store, and those who write it.                                      *)

Status == {"pending"} \cup Outcome

\* rows by detected_at; events is the greatest id of audit_log, whose ids
\* AUTOINCREMENT deals from 1.
NoFile == [tables |-> FALSE, rows |-> << >>, events |-> 0]

Now == Len(db)

RowOf(f, id) == {i \in DOMAIN db[f].rows : db[f].rows[i].id = id}

StatusOf(f, id) ==
    IF RowOf(f, id) = {} THEN NULL
    ELSE db[f].rows[CHOOSE i \in RowOf(f, id) : TRUE].status

\* save_incident: an id and a time no other row has.
Insert ==
    /\ db[Now].tables
    /\ \E id \in IncidentId, hw \in Hardware :
         /\ \A f \in DOMAIN db : RowOf(f, id) = {}
         /\ db' = [db EXCEPT ![Now].rows =
                Append(@, [id |-> id, hardware |-> hw, status |-> "pending"])]
    /\ UNCHANGED <<pc, conn, opened, queue, last_audit_id, screen>>

\* update_incident, by the executor or by log_escalation.
Settle ==
    /\ \E i \in DOMAIN db[Now].rows, s \in Outcome :
         /\ db[Now].rows[i].status = "pending"
         /\ db' = [db EXCEPT ![Now].rows[i].status = s]
    /\ UNCHANGED <<pc, conn, opened, queue, last_audit_id, screen>>

\* save_audit_event
LogEvent ==
    /\ db[Now].tables
    /\ db[Now].events < MaxEvents
    /\ db' = [db EXCEPT ![Now].events = @ + 1]
    /\ UNCHANGED <<pc, conn, opened, queue, last_audit_id, screen>>

\* rm -f: the next connection opens a new, empty file.
Reset ==
    /\ Now <= MaxResets
    /\ db' = Append(db, NoFile)
    /\ UNCHANGED <<pc, conn, opened, queue, last_audit_id, screen>>

\* A daemon starting runs schema.sql.
CreateTables ==
    /\ ~db[Now].tables
    /\ db' = [db EXCEPT ![Now].tables = TRUE]
    /\ UNCHANGED <<pc, conn, opened, queue, last_audit_id, screen>>

Writer == Insert \/ Settle \/ LogEvent \/ Reset \/ CreateTables

-----------------------------------------------------------------------------
(* The figures, as their SELECTs define them.                              *)

Figure == {"total", "actioned", "escalated", "hardware"}

Counted(row, figure) ==
    CASE figure = "total"     -> TRUE
      [] figure = "actioned"  -> row.status \in {"success", "failed"}
      [] figure = "escalated" -> row.status = "escalated"
      [] figure = "hardware"  -> row.hardware

Count(f, figure) ==
    Cardinality({i \in DOMAIN db[f].rows : Counted(db[f].rows[i], figure)})

-----------------------------------------------------------------------------
(* refresh_data: on the timer, one statement after the other.              *)

NoFigures == [f \in Figure |-> 0]

Init ==
    /\ db = <<[tables |-> TRUE, rows |-> << >>, events |-> 0]>>
    /\ pc = "idle"          /\ conn = NULL
    /\ stats = NoFigures    /\ opened = NULL
    /\ table = << >>        /\ cursor = 1
    /\ queue = << >>        /\ detail = NULL
    /\ panel = << >>        /\ last_audit_id = 0

\* The application ends, and its screen with it.
Exit ==
    /\ pc' = "exited"       /\ conn' = NULL
    /\ stats' = NoFigures   /\ opened' = NULL
    /\ table' = << >>       /\ cursor' = 1
    /\ queue' = << >>       /\ detail' = NULL
    /\ panel' = << >>       /\ last_audit_id' = 0

\* on_mount: the cursor of the audit panel starts from 0.
Mount ==
    /\ pc = "exited"
    /\ pc' = "idle"
    /\ UNCHANGED <<db, conn, opened, queue, last_audit_id, screen>>

Open ==
    /\ pc = "idle"
    /\ Len(queue) + 2 <= MaxQueue
    /\ db[Now].tables
    /\ pc' = "total"
    /\ conn' = Now
    /\ opened' = [f \in Figure |-> Count(Now, f)]
    /\ UNCHANGED <<db, queue, last_audit_id, screen>>

\* sqlite3.connect makes a file that is not there, and the first SELECT on a
\* table that is not there ends the application.
OpenFails ==
    /\ pc = "idle"
    /\ ~db[Now].tables
    /\ Exit
    /\ UNCHANGED db

\* VARIANT of ReadFigure: what was not actioned is taken to be escalated.
ReadFigureBySubtraction(figure, next) ==
    /\ pc = figure
    /\ pc' = next
    /\ stats' = [stats EXCEPT ![figure] =
          IF figure = "escalated" THEN Count(conn, "total") - Count(conn, "actioned")
          ELSE Count(conn, figure)]
    /\ UNCHANGED <<db, conn, opened, table, cursor, queue, detail, panel, last_audit_id>>

ReadFigure(figure, next) ==
    /\ pc = figure
    /\ pc' = next
    /\ stats' = [stats EXCEPT ![figure] = Count(conn, figure)]
    /\ UNCHANGED <<db, conn, opened, table, cursor, queue, detail, panel, last_audit_id>>

ReadFigures ==
    \/ ReadFigure("total", "actioned")
    \/ ReadFigure("actioned", "escalated")
    \/ ReadFigure("escalated", "hardware")
    \/ ReadFigure("hardware", "rows")

\* The incident under the cursor.
Selected == IF table = << >> THEN NULL ELSE table[cursor].id

\* ORDER BY detected_at DESC LIMIT 30
Newest ==
    LET rows == Reverse(db[conn].rows)
    IN  [ i \in 1..(IF Len(rows) < Limit THEN Len(rows) ELSE Limit)
            |-> [id |-> rows[i].id, status |-> rows[i].status] ]

\* Where the cursor goes: back to the incident it was on, else to the top.
CursorIn(rows) ==
    LET there == {i \in DOMAIN rows : rows[i].id = Selected}
    IN  IF there = {} THEN 1 ELSE CHOOSE i \in there : TRUE

\* VARIANT of Rebuild: the cursor keeps its place instead of its incident.
RebuildSamePlace ==
    /\ pc = "rows"
    /\ opened' = NULL
    /\ table' = Newest
    /\ cursor' = cursor
    /\ queue' = queue
    /\ pc' = "audit"
    /\ UNCHANGED <<db, conn, stats, detail, panel, last_audit_id>>

\* VARIANT of Rebuild: nothing is rebuilt while no incident is added.
RebuildOnGrowth ==
    /\ pc = "rows"
    /\ opened' = NULL
    /\ \/ /\ Len(Newest) = Len(table)
          /\ pc' = "audit"
          /\ UNCHANGED <<table, cursor, queue>>
       \/ /\ Len(Newest) # Len(table)
          /\ table' = Newest
          /\ cursor' = CursorIn(Newest)
          /\ queue' = queue
          /\ pc' = IF Newest = << >> THEN "audit" ELSE "detail"
    /\ UNCHANGED <<db, conn, stats, detail, panel, last_audit_id>>

\* table.clear(), add_row for each row, then the cursor is put back.  The
\* first row added is highlighted, and the cursor's row if it is another.
Rebuild ==
    /\ pc = "rows"
    /\ opened' = NULL
    /\ table' = Newest
    /\ cursor' = CursorIn(Newest)
    /\ queue' = queue \o (IF Newest = << >> THEN << >> ELSE <<Newest[1].id>>)
                      \o (IF cursor' = 1 THEN << >> ELSE <<Newest[cursor'].id>>)
    /\ pc' = IF Newest = << >> THEN "audit" ELSE "detail"
    /\ UNCHANGED <<db, conn, stats, detail, panel, last_audit_id>>

\* show_detail: an incident that has no row leaves the panel as it is.
Shown(f, id) ==
    IF StatusOf(f, id) = NULL THEN detail ELSE [id |-> id, status |-> StatusOf(f, id)]

ShowSelected ==
    /\ pc = "detail"
    /\ pc' = "audit"
    /\ detail' = Shown(conn, Selected)
    /\ UNCHANGED <<db, conn, opened, stats, table, cursor, queue, panel, last_audit_id>>

\* The audit events with an id after the given one, by id.
EventsAfter(id) ==
    [ k \in 1..(IF db[conn].events < id THEN 0 ELSE db[conn].events - id)
        |-> <<conn, id + k>> ]

\* VARIANT of Unprinted: WHERE id >= ?
UnprintedFrom == EventsAfter(IF last_audit_id = 0 THEN 0 ELSE last_audit_id - 1)

\* WHERE id > ? ORDER BY id ASC
Unprinted == EventsAfter(last_audit_id)

PrintEvents ==
    /\ pc = "audit"
    /\ pc' = "idle"
    /\ conn' = NULL
    /\ panel' = panel \o Unprinted
    /\ last_audit_id' = IF Unprinted = << >> THEN last_audit_id ELSE db[conn].events
    /\ UNCHANGED <<db, opened, stats, table, cursor, queue, detail>>

RefreshStep == Open \/ OpenFails \/ ReadFigures \/ Rebuild \/ ShowSelected \/ PrintEvents

-----------------------------------------------------------------------------
(* Between refreshes: the user, and the events the table posted.           *)

\* An arrow key: the table moves its cursor and posts the row it is on.
Move ==
    /\ pc = "idle"
    /\ Len(queue) + 2 < MaxQueue
    /\ cursor' \in {cursor - 1, cursor + 1} \cap DOMAIN table
    /\ queue' = Append(queue, table[cursor'].id)
    /\ UNCHANGED <<db, pc, conn, opened, stats, table, detail, panel, last_audit_id>>

\* VARIANT of RowHighlighted: the event is not handled, the timer will do.
RowHighlightedIgnored ==
    /\ pc = "idle"
    /\ queue # << >>
    /\ queue' = Tail(queue)
    /\ UNCHANGED <<db, pc, conn, opened, stats, table, cursor, detail, panel, last_audit_id>>

\* on_data_table_row_highlighted, on a connection of its own.
RowHighlighted ==
    /\ pc = "idle"
    /\ queue # << >>
    /\ db[Now].tables
    /\ queue' = Tail(queue)
    /\ detail' = Shown(Now, Head(queue))
    /\ UNCHANGED <<db, pc, conn, opened, stats, table, cursor, panel, last_audit_id>>

RowHighlightedFails ==
    /\ pc = "idle"
    /\ queue # << >>
    /\ ~db[Now].tables
    /\ Exit
    /\ UNCHANGED db

\* q
Quit ==
    /\ pc = "idle"
    /\ Exit
    /\ UNCHANGED db

EventStep == RowHighlighted \/ RowHighlightedFails

Next == Writer \/ RefreshStep \/ Move \/ EventStep \/ Quit \/ Mount

Spec == Init /\ [][Next]_vars

\* The timer fires every second and the event loop serves its queue.
FairSpec == Spec /\ WF_vars(RefreshStep) /\ WF_vars(EventStep)

-----------------------------------------------------------------------------
(* Types.                                                                  *)

Entry == [id : IncidentId, status : Status]

File == [ tables : BOOLEAN,
          rows   : Seq([id : IncidentId, hardware : Hardware, status : Status]),
          events : 0..MaxEvents ]

ASSUME NullAssumption == NULL \notin Status /\ NULL \notin Entry

\* Every variable holds what the code can put there; the cursor is on a row
\* of the table whenever the table has one.
TypeOK ==
    /\ pc \in {"idle", "rows", "detail", "audit", "exited"} \cup Figure
    /\ conn \in DOMAIN db \cup {NULL}
    /\ stats \in [Figure -> Nat]
    /\ table \in Seq(Entry) /\ Len(table) <= Limit
    /\ cursor \in 1..Len(table) \/ (table = << >> /\ cursor = 1)
    /\ queue \in Seq(IncidentId) /\ Len(queue) <= MaxQueue
    /\ detail \in Entry \cup {NULL}
    /\ panel \in Seq(Nat \X Nat)
    /\ last_audit_id \in 0..MaxEvents

-----------------------------------------------------------------------------
(* Safety.                                                                 *)

\* Each figure is read by a statement of its own while the writers go on, so
\* the four need not fit one another; but each is the true figure of some
\* moment of the refresh: no less than when it began, no more than now, in
\* the file it was reading.
FiguresOfTheRefresh ==
    pc = "rows" => \A f \in Figure :
        opened[f] <= stats[f] /\ stats[f] <= Count(conn, f)

\* The audit panel, filled a few lines per refresh from a remembered id, never
\* prints an event twice, out of order, or with a gap inside one database
\* file; and as long as the file was never removed it starts with event 1.
PanelFaithful ==
    /\ \A i \in 1..(Len(panel) - 1) :
           \/ panel[i + 1] = <<panel[i][1], panel[i][2] + 1>>
           \/ panel[i + 1][1] > panel[i][1]
    /\ Now = 1 /\ panel # << >> => panel[1] = <<1, 1>>

\* Once the events the table posted are handled, the detail panel shows the
\* incident under the cursor, whatever the refresh did to the rows and
\* wherever the user went, as long as that incident still has a row.
DetailFollowsCursor ==
    /\ pc = "idle"
    /\ queue = << >>
    /\ table # << >>
    /\ StatusOf(Now, Selected) # NULL
    => detail # NULL /\ detail.id = Selected

-----------------------------------------------------------------------------
(* The inductive invariant behind the safety properties.                   *)

\* The figures a refresh has read when it is about to read the given one.
ReadBefore(step) ==
    CASE step = "total"     -> {}
      [] step = "actioned"  -> {"total"}
      [] step = "escalated" -> {"total", "actioned"}
      [] step = "hardware"  -> {"total", "actioned", "escalated"}
      [] OTHER              -> Figure

Reading == Figure \cup {"rows"}

\* A refresh has a file open, and room in the queue for what it will post.
RefreshOK ==
    /\ db \in Seq(File) /\ db # << >>
    /\ pc \in Reading \cup {"detail", "audit"} => conn \in DOMAIN db
    /\ pc \in Reading => Len(queue) + 2 <= MaxQueue
    /\ pc = "detail" => table # << >>

\* What was counted so far lies between the refresh's beginning and now.
FiguresOK ==
    pc \in Reading => \A f \in Figure :
        /\ opened[f] \in Nat
        /\ opened[f] <= Count(conn, f)
        /\ f \in ReadBefore(pc) => opened[f] <= stats[f] /\ stats[f] <= Count(conn, f)

\* The last event printed is the one remembered, and of no later file.
PanelOK ==
    /\ panel = << >> => last_audit_id = 0
    /\ panel # << >> =>
         LET last == panel[Len(panel)]
         IN  /\ last[2] = last_audit_id
             /\ last[1] <= Now
             /\ pc \in Reading \cup {"detail", "audit"} => last[1] <= conn

\* The table is empty once the application ended.  An incident in the table
\* had its row in some file; the last row event
\* waiting is about the selected one, and when none is waiting the detail
\* panel is, if that incident still has its row.
SelectionOK ==
    /\ pc = "exited" => table = << >>
    /\ \A i \in DOMAIN table : \E f \in DOMAIN db : RowOf(f, table[i].id) # {}
    /\ pc \in {"detail", "audit"} /\ table # << >> =>
         queue # << >> /\ queue[Len(queue)] = Selected
    /\ pc = "idle" /\ table # << >> =>
         IF queue # << >> THEN queue[Len(queue)] = Selected
         ELSE RowOf(Now, Selected) # {} => detail # NULL /\ detail.id = Selected

IInv == /\ TypeOK /\ RefreshOK /\ FiguresOK
        /\ PanelOK /\ PanelFaithful /\ SelectionOK

-----------------------------------------------------------------------------
(* Action properties.                                                      *)

\* A refresh that puts new incidents above the selected one does not move the
\* selection to another incident: it moves only when the user moves it, or
\* when the incident is no longer among the rows the table shows.
SelectionKept ==
    [][\/ Selected = NULL
       \/ Selected' = Selected
       \/ Move
       \/ \A i \in DOMAIN table' : table'[i].id # Selected]_vars

-----------------------------------------------------------------------------
(* Liveness.                                                               *)

\* tui.py: "detail panel updates live".  What the store says of the incident
\* under the cursor comes to be what the detail panel says, unless the cursor
\* leaves it, the store changes again, or the application ends.
DetailUpdatesLive ==
    \A id \in IncidentId, s \in Status :
        (Selected = id /\ StatusOf(Now, id) = s)
            ~> \/ detail = [id |-> id, status |-> s]
               \/ Selected # id
               \/ StatusOf(Now, id) # s
               \/ pc = "exited"

=============================================================================
