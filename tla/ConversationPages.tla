-------------------------- MODULE ConversationPages --------------------------
(***************************************************************************)
(* A client that lists a conversation page by page while other requests    *)
(* append to it and delete from it (module Conversations).                 *)
(*                                                                         *)
(* ListConversationItems finds the place of the cursor item with one query *)
(* and selects the page with another; pages are separate HTTP requests     *)
(* whose cursor is the last id of the previous page.                       *)
(***************************************************************************)
EXTENDS Conversations, SequencesExt

CONSTANT Limits  \* page sizes that clients ask for (1..100 in the handler)

ASSUME LimitsAssumption == Limits \subseteq Nat \ {0}

VARIABLES
  pager,   \* the listing client and its request
  stable   \* history: the rows that stayed since the first page was asked for

pageVars == <<vars, pager, stable>>

NoPager == [pc |-> "idle"]

\* Rows in the order of the ORDER BY clause.
InOrder(R, order) ==
  SetToSortSeq(R, LAMBDA r, s : IF order = "asc" THEN r.seq < s.seq
                                                 ELSE r.seq > s.seq)

\* Mutant: the cursor item itself is selected again.
FromCursor(R, order, after) ==
  {r \in R : \/ after = <<>>
             \/ order = "asc" /\ r.seq >= after[1]
             \/ order = "desc" /\ r.seq <= after[1]}

\* The WHERE clause: beyond the cursor, if there is one.
BeyondCursor(R, order, after) ==
  {r \in R : \/ after = <<>>
             \/ order = "asc" /\ r.seq > after[1]
             \/ order = "desc" /\ r.seq < after[1]}

\* Mutant: LIMIT without the extra row, so has_more is never true.
PageWithoutProbe(R, order, after, limit) ==
  LET selected == InOrder(BeyondCursor(R, order, after), order)
  IN  [items |-> SubSeq(selected, 1, Min({limit, Len(selected)})),
       has_more |-> FALSE]

\* The page and has_more, from Limit + 1 selected rows.
Page(R, order, after, limit) ==
  LET selected == InOrder(BeyondCursor(R, order, after), order)
  IN  [items |-> SubSeq(selected, 1, Min({limit, Len(selected)})),
       has_more |-> Len(selected) > limit]

PInit == Init /\ pager = NoPager /\ stable = {}

\* The first page is requested: no cursor to look up.
StartListing(c, order, limit) ==
  /\ pager.pc = "idle"
  /\ version[c] # 0
  /\ pager' = [pc |-> "select", conv |-> c, order |-> order, limit |-> limit,
               after |-> <<>>, got |-> <<>>, moved |-> FALSE]
  /\ stable' = rows[c]
  /\ UNCHANGED vars

\* lookupConversationItemSeq: the cursor must still be an item.  The history
\* field moved records that it was deleted and appended again under its id.
LookupCursor ==
  /\ pager.pc = "lookup"
  /\ LET cursor == {r \in rows[pager.conv] : r.id = Last(pager.got).id}
     IN  \/ \E r \in cursor :
              pager' = [pager EXCEPT !.pc = "select", !.after = <<r.seq>>,
                                     !.moved = @ \/ r.seq # Last(pager.got).seq]
         \/ /\ cursor = {}
            /\ pager' = [pager EXCEPT !.pc = "rejected"]
  /\ UNCHANGED <<vars, stable>>

\* The page query; the client goes on as long as has_more says so.
SelectPage ==
  /\ pager.pc = "select"
  /\ LET page == Page(rows[pager.conv], pager.order, pager.after, pager.limit)
     IN  pager' = [pager EXCEPT !.pc = IF page.has_more THEN "lookup" ELSE "done",
                                !.got = @ \o page.items]
  /\ UNCHANGED <<vars, stable>>

\* Any step of the other requests.
Others ==
  /\ Next
  /\ stable' = IF pager.pc = "idle" THEN stable ELSE stable \cap rows'[pager.conv]
  /\ UNCHANGED pager

PNext ==
  \/ \E c \in Conv, order \in {"asc", "desc"}, limit \in Limits :
       StartListing(c, order, limit)
  \/ LookupCursor
  \/ SelectPage
  \/ Others

PSpec == PInit /\ [][PNext]_pageVars

----------------------------------------------------------------------------
\* Pages never repeat a row and keep the requested order, also across deletions
\* and appends between two pages and between the two queries of one page, unless
\* a client appended the cursor item again under the same id.
PagesAreOrdered ==
  pager.pc # "idle" /\ ~pager.moved =>
    \A i, j \in DOMAIN pager.got : i < j =>
      IF pager.order = "asc" THEN pager.got[i].seq < pager.got[j].seq
                             ELSE pager.got[i].seq > pager.got[j].seq

\* With the same exception, a listing that ran to has_more = false returned every
\* row that was there from its first page to its last.
PagesAreComplete ==
  pager.pc = "done" /\ ~pager.moved => stable \subseteq ToSet(pager.got)
=============================================================================
