--------------------------- MODULE TaskFilterModel ---------------------------
(***************************************************************************)
(* src/models/TaskFilterModel.cpp: the proxy between the task list and the *)
(* view. It answers two questions, whether a row is accepted and which of  *)
(* two rows comes first; Qt's QSortFilterProxyModel asks them about the    *)
(* rows that a notification of the source names, and about no other, and   *)
(* keeps the answers as a mapping from proxy rows to source rows.          *)
(***************************************************************************)
EXTENDS TaskListModel

CONSTANTS
  Texts,       \* what the search field can hold
  NoNeedle,    \* nothing to search for
  Needle,      \* Needle[t]: t trimmed, NoNeedle when nothing is left
  Matches,     \* Matches[n]: the bodies with n in the title or the notes
  TitleRank,   \* place of a body's title in the alphabet, case ignored
  Level,       \* a body's priority
  Due,         \* a body's due date
  NoDue,       \* an invalid due date
  CreatedRank  \* place of a creation time in time, an invalid one first

ASSUME FilterAssumption ==
  /\ Needle \in [Texts -> DOMAIN Matches \union {NoNeedle}]
  /\ NoNeedle \notin DOMAIN Matches
  /\ \A n \in DOMAIN Matches : Matches[n] \subseteq Bodies
  /\ TitleRank \in [Bodies -> Int]
  /\ Level \in [Bodies -> Int]
  /\ NoDue \notin Int
  /\ Due \in [Bodies -> Int \union {NoDue}]
  /\ CreatedRank \in [Times \union {NoTime} -> Int]

VARIABLES
  searchText, showCompleted, sortMode,
  visible      \* the mapping: visible[p] is the source row of proxy row p

filterVars == <<searchText, showCompleted, sortMode, visible>>

SortModes == {"ByCreated", "ByDueDate", "ByPriority", "ByTitle"}

FilterInit ==
  /\ searchText \in Texts /\ Needle[searchText] = NoNeedle
  /\ showCompleted = TRUE
  /\ sortMode = "ByCreated"
  /\ visible = <<>>

FilterTypeOK ==
  /\ searchText \in Texts
  /\ showCompleted \in BOOLEAN
  /\ sortMode \in SortModes
  /\ visible \in Seq(Nat)

-----------------------------------------------------------------------------
(* The two questions. *)

(* A row the source does not have is not accepted. *)
filterAcceptsRow(row) ==
  /\ row \in DOMAIN tasks
  /\ showCompleted \/ ~tasks[row].done
  /\ Needle[searchText] = NoNeedle \/ tasks[row].body \in Matches[Needle[searchText]]

Accepted == {row \in DOMAIN tasks : filterAcceptsRow(row)}

Newer(left, right) == CreatedRank[left.createdAt] > CreatedRank[right.createdAt]

(* Mutant: of two tasks without a due date, either is before the other. *)
lessThanNoDate(mode, left, right) ==
  \/ ~left.done /\ right.done
  \/ /\ left.done = right.done
     /\ \/ mode = "ByCreated" /\ Newer(left, right)
        \/ /\ mode = "ByDueDate"
           /\ \/ Due[right.body] = NoDue
              \/ Due[left.body] # NoDue /\ Due[left.body] < Due[right.body]
        \/ mode = "ByPriority" /\ Level[left.body] > Level[right.body]
        \/ mode = "ByTitle" /\ TitleRank[left.body] < TitleRank[right.body]

lessThan(mode, left, right) ==
  \/ ~left.done /\ right.done
  \/ /\ left.done = right.done
     /\ \/ mode = "ByCreated" /\ Newer(left, right)
        \/ /\ mode = "ByDueDate"
           /\ Due[left.body] # NoDue
           /\ Due[right.body] = NoDue \/ Due[left.body] < Due[right.body]
        \/ /\ mode = "ByPriority"
           /\ \/ Level[left.body] > Level[right.body]
              \/ Level[left.body] = Level[right.body] /\ Newer(left, right)
        \/ mode = "ByTitle" /\ TitleRank[left.body] < TitleRank[right.body]

InOrder(row, next) == ~lessThan(sortMode, tasks[next], tasks[row])

-----------------------------------------------------------------------------
(* The mapping, notification by notification. *)

Rows == {visible[p] : p \in DOMAIN visible}
Above(row, next) == \E p, q \in DOMAIN visible : p < q /\ visible[p] = row /\ visible[q] = next

(* The rows that stay keep their order, those that come are sorted in. Who *)
(* comes first of two rows that lessThan() holds equal is left open.       *)
arrange(stay, come) ==
  \E order \in [1 .. Cardinality(stay \union come) -> stay \union come] :
    /\ \A p, q \in DOMAIN order : p < q =>
         /\ order[p] # order[q]
         /\ IF order[p] \in stay /\ order[q] \in stay
            THEN Above(order[p], order[q])
            ELSE InOrder(order[p], order[q])'
    /\ visible' = order

rowsInserted(row) == arrange(Rows, {row} \intersect Accepted')

(* Mutant: a changed row that stays accepted stays where it is. *)
dataChangedUnsorted(row) ==
  IF row \in Rows \intersect Accepted'
  THEN UNCHANGED visible
  ELSE arrange(Rows \ {row}, {row} \intersect Accepted')

dataChanged(row) == arrange(Rows \ {row}, {row} \intersect Accepted')

rowsRemoved(row) ==
  LET renumbered(seq) == [p \in DOMAIN seq |-> IF seq[p] > row THEN seq[p] - 1 ELSE seq[p]] IN
    \/ row \notin Rows /\ visible' = renumbered(visible)
    \/ \E p \in DOMAIN visible : visible[p] = row /\ visible' = renumbered(Without(visible, p))

modelReset == arrange({}, Accepted')

invalidateFilter == arrange(Rows \intersect Accepted', Accepted' \ Rows)

(* With the sort(0) after it. *)
invalidate == arrange({}, Accepted')

-----------------------------------------------------------------------------
(* The three properties of the proxy; writing the value it has does        *)
(* nothing.                                                                *)
setSearchText(text) ==
  /\ searchText # text
  /\ searchText' = text
  /\ UNCHANGED <<allVars, showCompleted, sortMode>>
  /\ invalidateFilter

(* Mutant: the rows are not looked at again. *)
setShowCompletedKeepsRows(show) ==
  /\ showCompleted # show
  /\ showCompleted' = show
  /\ UNCHANGED <<allVars, searchText, sortMode, visible>>

setShowCompleted(show) ==
  /\ showCompleted # show
  /\ showCompleted' = show
  /\ UNCHANGED <<allVars, searchText, sortMode>>
  /\ invalidateFilter

setSortMode(mode) ==
  /\ sortMode # mode
  /\ sortMode' = mode
  /\ UNCHANGED <<allVars, searchText, showCompleted>>
  /\ invalidate

SettingsStay == UNCHANGED <<searchText, showCompleted, sortMode>>

-----------------------------------------------------------------------------
(* The view shows every row that passes the filter, once, and no other;    *)
(* in particular it never shows the row that the source announces for a    *)
(* task with a blank title and then takes back                             *)
(* (TaskFilterModel.cpp:10, 61-80, TaskListModel.cpp:190-199).             *)
ListShowsFilter ==
  /\ Rows = Accepted
  /\ \A p, q \in DOMAIN visible : p # q => visible[p] # visible[q]

(* From any row to a later one, open tasks come before done ones, and      *)
(* within each the chosen order holds, also after edits of the sorted keys *)
(* (TaskFilterModel.cpp:10, 46-47, 82-120).                                *)
ListInOrder ==
  \A p, q \in DOMAIN visible : p < q /\ {visible[p], visible[q]} \subseteq DOMAIN tasks =>
    LET row == tasks[visible[p]]
        next == tasks[visible[q]]
    IN  /\ row.done => next.done
        /\ row.done = next.done =>
             CASE sortMode = "ByCreated"  -> CreatedRank[row.createdAt] >= CreatedRank[next.createdAt]
               [] sortMode = "ByDueDate"  -> \/ Due[next.body] = NoDue
                                             \/ Due[row.body] # NoDue /\ Due[row.body] <= Due[next.body]
               [] sortMode = "ByPriority" -> Level[row.body] >= Level[next.body]
               [] sortMode = "ByTitle"    -> TitleRank[row.body] <= TitleRank[next.body]

(* What std::stable_sort needs of lessThan(), whatever tasks there are:    *)
(* no task is before itself, and both "before" and "neither before the     *)
(* other" carry over from one pair to the next                             *)
(* (TaskFilterModel.cpp:82-120).                                           *)
StrictWeakOrder(mode, T) ==
  \A a, b, c \in T :
    /\ ~lessThan(mode, a, a)
    /\ lessThan(mode, a, b) /\ lessThan(mode, b, c) => lessThan(mode, a, c)
    /\ lessThan(mode, a, c) => lessThan(mode, a, b) \/ lessThan(mode, b, c)

OrderIsStrictWeak == \A mode \in SortModes : StrictWeakOrder(mode, {tasks[i] : i \in DOMAIN tasks})

(* TaskFilterModel.h:47 of ByPriority: "high first, then by due date". Of  *)
(* two tasks of one priority, a later due date does not come first.        *)
PriorityThenDueDate ==
  sortMode = "ByPriority" =>
    \A p, q \in DOMAIN visible : p < q =>
      LET row == tasks[visible[p]]
          next == tasks[visible[q]]
      IN  row.done = next.done /\ Level[row.body] = Level[next.body]
            /\ Due[row.body] # NoDue /\ Due[next.body] # NoDue
          => Due[row.body] <= Due[next.body]
=============================================================================
