----------------------------- MODULE BackOffice -----------------------------
(***************************************************************************)
(* What the instructor and the administrator read while the lab goes on    *)
(* (instructor/service.py, admin/service.py): a learner's card, put        *)
(* together by one query after another; the audit of tool calls, paged by  *)
(* its last timestamp; a table, paged by offset under a capped count; and  *)
(* the sweep that drops old audit rows (worker/retention.py).              *)
(***************************************************************************)
EXTENDS Absent, Naturals, FiniteSetsExt, SequencesExt

CONSTANTS
  CardLabs,   \* the labs of the learner
  MaxFacts,   \* bound: rows a learner leaves
  PageSize,   \* limit, page_size
  CountCap,   \* COUNT_CAP
  SweepSize,  \* _BATCH_SIZE
  TableRows,   \* bound: rows of the table
  LastTs      \* bound: the instant

ASSUME OfficeAssumption ==
  /\ {PageSize, CountCap, SweepSize, TableRows, LastTs} \subseteq Nat \ {0}
  /\ MaxFacts \in Nat /\ None \notin Nat

VARIABLES
  desk,     \* what is read: a "card", the "overview", the "audit" or "browse"
  facts,    \* the learner's rows: sessions, progress, hints, other events and messages
  card,     \* the figures read so far: which of the facts were counted
  table,    \* the rows of the other tables: their number and timestamp
  instant,
  walk,     \* the walk over the pages
  sweep     \* the sweep: None, or its cutoff

officeVars == <<desk, facts, card, table, instant, walk, sweep>>

NoWalk == [pc |-> "new", page |-> 1, before |-> None, got |-> {}, twice |-> FALSE, start |-> {},
           edges |-> {}, count |-> 0, arrived |-> FALSE, removed |-> {}]

InFigures == desk \in {"card", "overview"}

OfficeInit ==
  /\ desk \in {"card", "overview", "audit", "browse"}
  /\ facts = <<>> /\ card = <<>>
  /\ instant = LastTs - 1 /\ sweep = None /\ walk = NoWalk
  /\ \E n \in 0 .. TableRows - 1, ts \in [1 .. TableRows - 1 -> 0 .. LastTs - 1] :
       /\ \A i, j \in 1 .. n : i < j => ts[i] <= ts[j]
       /\ \A i \in n + 1 .. TableRows - 1 : ts[i] = 0
       /\ InFigures => n = 0
       /\ table = {[row |-> i, ts |-> ts[i]] : i \in 1 .. n}
-----------------------------------------------------------------------------
(* A learner's card *)

Of(kind) == {i \in DOMAIN facts : facts[i].kind = kind}

\* The learner begins a session, or leaves something in one.
Leaves(kind, lab) ==
  /\ InFigures /\ Len(facts) < MaxFacts
  /\ kind \in {"hint", "message"} => \E i \in Of("session") : facts[i].lab = lab
  /\ facts' = Append(facts, [kind |-> kind, lab |-> lab])
  /\ UNCHANGED <<desk, card, table, instant, walk, sweep>>

\* The queries of get_student_detail, and of get_students_overview, in their order, and
\* the kind of row each of them counts.
DetailQueries == <<"progress", "hints by lab", "sessions by lab", "messages", "hints", "sessions">>
OverviewQueries == <<"progress", "hints", "sessions">>
Queries == IF desk = "card" THEN DetailQueries ELSE OverviewQueries
Kind(query) ==
  CASE query = "progress" -> "progress"
    [] query \in {"hints", "hints by lab"} -> "hint"
    [] query \in {"sessions", "sessions by lab"} -> "session"
    [] query = "messages" -> "message"

\* A figure is known by the rows it counts, those of every lab or session together.
AskNext ==
  /\ InFigures /\ Len(card) < Len(Queries)
  /\ card' = Append(card, Of(Kind(Queries[Len(card) + 1])))
  /\ UNCHANGED <<desk, facts, table, instant, walk, sweep>>
-----------------------------------------------------------------------------
(* The pages *)

\* A row is never stored again once it was removed.
Arrive ==
  /\ ~InFigures /\ \A t \in table \cup walk.removed : t.row < TableRows
  /\ table' = table \cup {[row |-> TableRows, ts |-> instant]}
  /\ walk' = [walk EXCEPT !.arrived = TRUE]
  /\ UNCHANGED <<desk, facts, card, instant, sweep>>

ClockOn ==
  /\ ~InFigures /\ instant < LastTs /\ instant' = instant + 1
  /\ UNCHANGED <<desk, facts, card, table, walk, sweep>>

\* sweep_mcp_audit: batches of rows older than the cutoff, in any order, until one is short.
SweepBegins ==
  /\ ~InFigures /\ sweep = None
  /\ \E cutoff \in 1 .. instant : sweep' = [cutoff |-> cutoff, done |-> FALSE]
  /\ UNCHANGED <<desk, facts, card, table, instant, walk>>

SweepBatch ==
  /\ sweep # None /\ ~sweep.done
  /\ LET old == {t \in table : t.ts < sweep.cutoff}
     IN \E batch \in kSubset(Min({SweepSize, Cardinality(old)}), old) :
          /\ table' = table \ batch
          /\ walk' = [walk EXCEPT !.removed = @ \cup batch]
          /\ sweep' = [sweep EXCEPT !.done = Cardinality(batch) < SweepSize]
  /\ UNCHANGED <<desk, facts, card, instant>>

\* Where a walk stands when its first page is asked for.
Begun == IF walk.pc = "new" THEN [walk EXCEPT !.start = table, !.arrived = FALSE] ELSE walk
WithPage(w, rows) == [w EXCEPT !.got = @ \cup rows, !.twice = @ \/ w.got \cap rows # {}]

\* get_mcp_audit: newest first; the next page is what is older than the last row shown.
\* Rows of one timestamp come in the order of their random ids.
NotNewer(t, before) == t.ts <= before     \* mutant
Older(t, before) == t.ts < before
NewestOf(rows, page) == \A t \in page, u \in rows \ page : u.ts <= t.ts
AuditPage ==
  /\ desk = "audit" /\ walk.pc \in {"new", "paging"}
  /\ LET left == {t \in table : walk.before # None => Older(t, walk.before)}
     IN \E page \in kSubset(Min({PageSize, Cardinality(left)}), left) :
          LET last == IF page = {} THEN walk.before ELSE Min({t.ts : t \in page}) IN
          /\ NewestOf(left, page)
          /\ walk' = [WithPage(Begun, page) EXCEPT
                        !.before = last,
                        !.edges = IF page = {} THEN @ ELSE @ \cup {last},
                        !.pc = IF Cardinality(page) < PageSize THEN "over" ELSE "paging"]
  /\ UNCHANGED <<desk, facts, card, table, instant, sweep>>

\* browse_table: the count as far as one can page, then the page.
CountRows ==
  /\ desk = "browse" /\ walk.pc \in {"new", "paging"}
  /\ walk' = [Begun EXCEPT !.pc = "counted", !.count = Min({Cardinality(table), CountCap})]
  /\ UNCHANGED <<desk, facts, card, table, instant, sweep>>

\* Rows of one timestamp come in an order that the database chooses anew.
Orders == {p \in [1 .. Cardinality(table) -> table] :
             \A i, j \in DOMAIN p : i < j => p[i] # p[j] /\ p[i].ts >= p[j].ts}
BrowsePage ==
  /\ desk = "browse" /\ walk.pc = "counted"
  /\ \E p \in Orders :
       LET offset == (walk.page - 1) * PageSize
           rows == IF offset < CountCap
                   THEN {p[i] : i \in {k \in DOMAIN p : offset < k /\ k <= offset + PageSize}}
                   ELSE {}
       IN walk' = [WithPage(walk, rows) EXCEPT
                     !.page = @ + 1,
                     !.pc = IF walk.page * PageSize >= walk.count THEN "over" ELSE "paging"]
  /\ UNCHANGED <<desk, facts, card, table, instant, sweep>>

OfficeNext ==
  \/ \E kind \in {"session", "progress", "hint", "message"}, lab \in CardLabs : Leaves(kind, lab)
  \/ AskNext \/ Arrive \/ ClockOn \/ SweepBegins \/ SweepBatch \/ AuditPage \/ CountRows \/ BrowsePage

OfficeSpec == OfficeInit /\ [][OfficeNext]_officeVars
-----------------------------------------------------------------------------
Missed == (walk.start \cap table) \ walk.got
Ties == \E t, u \in table : t # u /\ t.ts = u.ts

\* Pages by offset cannot be put together.
Disturbed == walk.arrived \/ Ties \/ walk.removed \cap walk.start # {}

\* What a reader may rely on.  A card's figures fit each other although they are read
\* one after another: no hint and no session is counted in the summary that the lists
\* lack, and the overview has no learner with hints and without a session.  A walk over
\* the audit shows no row twice, and passes over a row only when it shares the timestamp
\* at which a page ended.  A walk over a table shows a row twice or misses one only if
\* rows arrived, were removed or share a timestamp, or the count reached its cap.  A sweep
\* that is over has left no row older than its cutoff (service.py:32, 115, 289;
\* admin/service.py:72; retention.py:36).
OfficeSound ==
  /\ desk = "card" =>
       /\ Len(card) >= 5 => card[2] \subseteq card[5]
       /\ Len(card) >= 6 => card[3] \subseteq card[6]
  /\ desk = "overview" /\ Len(card) = 3 /\ card[2] # {} => card[3] # {}
  /\ desk = "audit" =>
       /\ ~walk.twice
       /\ walk.pc = "over" => \A t \in Missed : t.ts \in walk.edges
  /\ desk = "browse" =>
       /\ walk.twice => Disturbed
       /\ walk.pc = "over" /\ walk.count < CountCap => Missed = {} \/ Disturbed
  /\ sweep # None /\ sweep.done => \A t \in table : t.ts >= sweep.cutoff
=============================================================================
