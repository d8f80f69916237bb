------------------------- MODULE ConversationsProofs -------------------------
(***************************************************************************)
(* Theorems about module Conversations, for every number of conversations, *)
(* items and requests and without the bounds of the model-checked runs.    *)
(***************************************************************************)
EXTENDS Conversations, WellFoundedInduction, TLAPS

\* A bounded, non-empty set of natural numbers has a greatest element: what
\* makes COALESCE(MAX(seq), -1) + 1 defined.
LEMMA GreatestOfBounded ==
  ASSUME NEW S \in SUBSET Nat, S # {},
         NEW b \in Nat, \A s \in S : s < b
  PROVE  \E m \in S : \A s \in S : s <= m
<1> DEFINE U == {n \in Nat : \A s \in S : s < n}
<1>1. U \subseteq Nat /\ U # {}
  OBVIOUS
<1>2. PICK n \in U : \A k \in U : ~(<<k, n>> \in OpToRel(<, Nat))
  BY Zenon, <1>1, WFMin, NatLessThanWellFounded
<1>3. \A k \in U : ~(k < n)
  BY Zenon, <1>2 DEF OpToRel
<1>4. n # 0
  <2>1. PICK s \in S : s < n
    BY Zenon
  <2> QED
    BY <2>1
<1>5. n - 1 \in Nat /\ n - 1 < n /\ n - 1 \notin U
  BY <1>3, <1>4
<1>6. PICK m \in S : ~(m < n - 1)
  BY <1>5
<1>7. m = n - 1
  BY <1>6
<1> QED
  BY <1>7

\* nextConversationItemSeq is a place after every row.
LEMMA NextSeqIsAfter ==
  ASSUME NEW R \in SUBSET Row,
         NEW b \in Nat, \A r \in R : r.seq < b
  PROVE  /\ nextConversationItemSeq(R) \in Nat
         /\ \A r \in R : r.seq < nextConversationItemSeq(R)
<1> DEFINE S == {r.seq : r \in R}
<1>1. S \in SUBSET Nat /\ (\A s \in S : s < b)
  BY DEF Row
<1>2. CASE R = {}
  BY <1>2 DEF nextConversationItemSeq
<1>3. CASE R # {}
  <2>1. S # {}
    BY <1>3
  <2>2. \E m \in S : \A s \in S : s <= m
    BY Zenon, <1>1, <2>1, GreatestOfBounded
  <2>3. \E n \in S : \A r \in R : r.seq <= n
    BY <2>2
  <2> DEFINE top == CHOOSE n \in S : \A r \in R : r.seq <= n
  <2>4. top \in S /\ \A r \in R : r.seq <= top
    BY <2>3
  <2>5. nextConversationItemSeq(R) = top + 1
    BY <1>3 DEF nextConversationItemSeq
  <2>6. top \in Nat /\ \A r \in R : r.seq \in Nat
    BY <1>1, <2>4
  <2> HIDE DEF top, S
  <2> QED
    BY <2>4, <2>5, <2>6
<1> QED
  BY <1>2, <1>3

\* NumberRows gives the entries consecutive places from start on.
LEMMA NumberRowsPlaces ==
  ASSUME NEW start \in Nat, NEW entries \in Seq(Entry), NEW source \in [DOMAIN entries -> Sources]
  PROVE  /\ NumberRows(start, entries, source) \in SUBSET Row
         /\ \A r \in NumberRows(start, entries, source) :
              /\ start <= r.seq /\ r.seq < start + Len(entries)
              /\ r.id \in {entries[i].id : i \in DOMAIN entries}
         /\ \A r, s \in NumberRows(start, entries, source) :
              r.seq = s.seq => r = s
<1> DEFINE N == NumberRows(start, entries, source)
           row(i) == [id |-> entries[i].id, seq |-> start + i - 1,
                      source |-> source[i], kind |-> entries[i].kind,
                      sums |-> entries[i].sums]
<1>1. \A r \in N : \E i \in 1..Len(entries) : r = row(i)
  BY DEF NumberRows
<1>2. \A i \in 1..Len(entries) : entries[i] \in Entry
  OBVIOUS
<1>3. \A i \in 1..Len(entries) :
        /\ row(i) \in Row
        /\ row(i).seq = start + i - 1
        /\ start <= row(i).seq /\ row(i).seq < start + Len(entries)
        /\ row(i).id = entries[i].id
  BY <1>2 DEF Row, Entry
<1>4. \A i, j \in 1..Len(entries) : row(i).seq = row(j).seq => i = j
  BY <1>3
<1> HIDE DEF row
<1>5. N \in SUBSET Row
  BY <1>1, <1>3
<1>6. \A r \in N : /\ start <= r.seq /\ r.seq < start + Len(entries)
                  /\ r.id \in {entries[i].id : i \in DOMAIN entries}
  BY <1>1, <1>3
<1>7. \A r, s \in N : r.seq = s.seq => r = s
  BY <1>1, <1>4
<1> QED
  BY <1>5, <1>6, <1>7

\* Places are bounded in every state: a conversation holds finitely many rows.
SeqsBounded == \A c \in Conv : \E b \in Nat : \A r \in rows[c] : r.seq < b

\* A conversation that was not created has no rows.
EmptyBeforeCreate == \A c \in Conv : version[c] = 0 => rows[c] = {}

\* What the three appending transactions have in common.
Appended(c, new, ids) ==
  /\ rows' = [rows EXCEPT ![c] = @ \cup new]
  /\ new \in SUBSET Row
  /\ {r.id : r \in new} = ids
  /\ \E b \in Nat : \A r \in new : r.seq < b
  /\ \A r, s \in new : r.seq = s.seq => r = s
  /\ \A r, s \in new : r.id = s.id => r = s
  /\ \A old \in rows[c] : \A r \in new : old.seq < r.seq
  /\ \A d \in Conv : \A r \in rows[d] : r.id \notin ids

\* The entries of a batch of ids form a sequence of entries.
LEMMA BatchOfEntries ==
  ASSUME NEW ids \in Batch, NEW kinds \in [DOMAIN ids -> Kinds]
  PROVE  /\ [i \in DOMAIN ids |-> Message(ids[i])] \in Seq(Entry)
         /\ [i \in DOMAIN ids |-> AppendEntry(ids[i], kinds[i])] \in Seq(Entry)
         /\ {ids[i] : i \in DOMAIN ids} \subseteq Item
<1>1. PICK n \in Nat : ids \in [1..n -> Item]
  BY BoundsAssumption DEF Batch
<1>2. \A i \in 1..n : ids[i] \in Item /\ kinds[i] \in Kinds
  BY <1>1
<1>3. \A i \in 1..n : /\ Message(ids[i]) \in Entry
                      /\ AppendEntry(ids[i], kinds[i]) \in Entry
  BY <1>2 DEF Message, AppendEntry, Entry, Kinds
<1> QED
  BY <1>1, <1>2, <1>3

\* Rows numbered from start on, with ids that Insertable accepts, keep ids apart.
LEMMA NumberRowsIds ==
  ASSUME NEW start \in Nat, NEW entries \in Seq(Entry), NEW source \in [DOMAIN entries -> Sources],
         \A i, j \in DOMAIN entries : entries[i].id = entries[j].id => i = j
  PROVE  \A r, s \in NumberRows(start, entries, source) : r.id = s.id => r = s
<1> SUFFICES ASSUME NEW r \in NumberRows(start, entries, source),
                    NEW s \in NumberRows(start, entries, source), r.id = s.id
             PROVE  r = s
  OBVIOUS
<1> DEFINE row(i) == [id |-> entries[i].id, seq |-> start + i - 1,
                      source |-> source[i], kind |-> entries[i].kind,
                      sums |-> entries[i].sums]
<1>1. PICK i \in DOMAIN entries : r = row(i)
  BY DEF NumberRows
<1>2. PICK j \in DOMAIN entries : s = row(j)
  BY DEF NumberRows
<1>3. entries[i].id = entries[j].id
  BY <1>1, <1>2
<1> QED
  BY <1>1, <1>2, <1>3

\* One appended batch (AppendConversationItems, and the seed items).
LEMMA AppendBatch ==
  ASSUME NEW c \in Conv, TypeOK, SeqsBounded, NEW entries \in Seq(Entry),
         NEW source \in [DOMAIN entries -> Sources], Insertable(entries),
         rows' = [rows EXCEPT ![c] = @ \cup
                    NumberRows(nextConversationItemSeq(@), entries, source)]
  PROVE  Appended(c, NumberRows(nextConversationItemSeq(rows[c]), entries, source),
                  {entries[i].id : i \in DOMAIN entries})
<1> DEFINE start == nextConversationItemSeq(rows[c])
           new == NumberRows(start, entries, source)
<1>1. rows[c] \in SUBSET Row
  BY DEF TypeOK
<1>2. start \in Nat /\ \A r \in rows[c] : r.seq < start
  BY <1>1, NextSeqIsAfter DEF SeqsBounded
<1>3. rows' = [rows EXCEPT ![c] = @ \cup new]
  BY DEF TypeOK
<1>4. \A i, j \in DOMAIN entries : entries[i].id = entries[j].id => i = j
  BY DEF Insertable
<1>5. \A d \in Conv : \A r \in rows[d] :
        r.id \notin {entries[i].id : i \in DOMAIN entries}
  BY DEF Insertable
<1> HIDE DEF start
<1>6. /\ new \in SUBSET Row
      /\ \A r \in new : /\ start <= r.seq /\ r.seq < start + Len(entries)
                       /\ r.id \in {entries[i].id : i \in DOMAIN entries}
      /\ \A r, s \in new : r.seq = s.seq => r = s
  BY <1>2, NumberRowsPlaces
<1>7. \A r, s \in new : r.id = s.id => r = s
  BY <1>2, <1>4, NumberRowsIds
<1> HIDE DEF new
<1>8. \E b \in Nat : \A r \in new : r.seq < b
  <2>1. start + Len(entries) \in Nat
    BY <1>2
  <2> QED
    BY <1>6, <2>1
<1>9. \A old \in rows[c] : \A r \in new : old.seq < r.seq
  <2> SUFFICES ASSUME NEW old \in rows[c], NEW r \in new
               PROVE  old.seq < r.seq
    OBVIOUS
  <2>1. old.seq \in Nat /\ r.seq \in Nat
    BY <1>1, <1>6 DEF Row
  <2> QED
    BY <1>2, <1>6, <2>1
<1>10. {r.id : r \in new} = {entries[i].id : i \in DOMAIN entries}
  <2>1. ASSUME NEW i \in DOMAIN entries
        PROVE  \E r \in new : r.id = entries[i].id
    <3> DEFINE r == [id |-> entries[i].id, seq |-> start + i - 1,
                     source |-> source[i], kind |-> entries[i].kind,
                     sums |-> entries[i].sums]
    <3>1. r \in new
      BY DEF new, NumberRows
    <3>2. r.id = entries[i].id
      OBVIOUS
    <3> QED
      BY <3>1, <3>2
  <2> QED
    BY <1>6, <2>1
<1> QED
  BY Zenon, <1>3, <1>5, <1>6, <1>7, <1>8, <1>9, <1>10 DEF Appended, new, start

\* What an append leaves of the places and the ids.
LEMMA AppendedKeepsRows ==
  ASSUME NEW c \in Conv, NEW new, NEW ids, TypeOK, SeqsBounded, RowsAreUnique,
         Appended(c, new, ids)
  PROVE  /\ rows' \in [Conv -> SUBSET Row]
         /\ SeqsBounded'
         /\ RowsAreUnique'
<1>1. rows' \in [Conv -> SUBSET Row]
  BY DEF TypeOK, Appended
<1>2. rows'[c] = rows[c] \cup new /\ \A d \in Conv \ {c} : rows'[d] = rows[d]
  BY DEF TypeOK, Appended
<1>3. SeqsBounded'
  <2> SUFFICES ASSUME NEW d \in Conv
               PROVE  \E b \in Nat : \A r \in rows'[d] : r.seq < b
    BY DEF SeqsBounded
  <2>1. PICK b \in Nat : \A r \in rows[d] : r.seq < b
    BY DEF SeqsBounded
  <2>2. PICK e \in Nat : \A r \in new : r.seq < e
    BY DEF Appended
  <2>3. \A r \in rows[d] \cup new : r.seq \in Nat
    BY DEF TypeOK, Appended, Row
  <2>4. b + e \in Nat /\ \A r \in rows[d] \cup new : r.seq < b + e
    BY <2>1, <2>2, <2>3
  <2>5. rows'[d] \subseteq rows[d] \cup new
    BY <1>2
  <2> QED
    BY <2>4, <2>5
<1>4. RowsAreUnique'
  <2> SUFFICES ASSUME NEW d \in Conv, NEW e \in Conv,
                      NEW r \in rows'[d], NEW s \in rows'[e],
                      r.id = s.id \/ (d = e /\ r.seq = s.seq)
               PROVE  d = e /\ r = s
    BY DEF RowsAreUnique
  <2>1. CASE r \in rows[d] /\ s \in rows[e]
    BY <2>1 DEF RowsAreUnique
  <2>2. CASE r \in rows[d] /\ s \notin rows[e]
    <3>1. e = c /\ s \in new
      BY <1>2, <2>2
    <3>2. r.id # s.id
      BY <2>2, <3>1 DEF Appended
    <3>3. d = e => r.seq < s.seq /\ r.seq \in Nat /\ s.seq \in Nat
      BY <2>2, <3>1 DEF Appended, TypeOK, Row
    <3> QED
      BY <3>2, <3>3
  <2>3. CASE r \notin rows[d] /\ s \in rows[e]
    <3>1. d = c /\ r \in new
      BY <1>2, <2>3
    <3>2. r.id # s.id
      BY <2>3, <3>1 DEF Appended
    <3>3. d = e => s.seq < r.seq /\ r.seq \in Nat /\ s.seq \in Nat
      BY <2>3, <3>1 DEF Appended, TypeOK, Row
    <3> QED
      BY <3>2, <3>3
  <2>4. CASE r \notin rows[d] /\ s \notin rows[e]
    <3>1. d = c /\ e = c /\ r \in new /\ s \in new
      BY <1>2, <2>4
    <3> QED
      BY <3>1 DEF Appended
  <2> QED
    BY <2>1, <2>2, <2>3, <2>4
<1> QED
  BY <1>1, <1>3, <1>4

\* The shape of the request that a step finds.
LEMMA RequestShape ==
  ASSUME TypeOK, NEW p \in Proc
  PROVE  /\ req[p].pc = "items" => req[p] \in Reading
         /\ req[p].pc \in {"generate", "save"} => req[p] \in Prepared
         /\ req[p].pc # "idle" => req[p] \in Reading \cup Prepared
BY DEF TypeOK, Idle, Reading, Prepared

\* The inductive invariant.
IInv == /\ TypeOK
        /\ SeqsBounded
        /\ EmptyBeforeCreate
        /\ RowsAreUnique
        /\ FreshVersionFreshContext

\* CreateConversation writes the first rows of a new conversation.
LEMMA SeedAppends ==
  ASSUME IInv, NEW c \in Conv, NEW ids \in Batch,
         NEW kinds \in [DOMAIN ids -> Kinds], CreateConversation(c, ids, kinds)
  PROVE  \E new, names : Appended(c, new, names)
<1> DEFINE entries == [i \in DOMAIN ids |-> AppendEntry(ids[i], kinds[i])]
<1>1. entries \in Seq(Entry)
  BY Zenon, BatchOfEntries
<1>2. rows[c] = {} /\ nextConversationItemSeq(rows[c]) = 0
  BY DEF CreateConversation, IInv, EmptyBeforeCreate, nextConversationItemSeq
<1>3. All(entries, "seed") \in [DOMAIN entries -> Sources]
  BY DEF All, Sources
<1>4. Insertable(entries)
  BY DEF CreateConversation
<1>5. rows' = [rows EXCEPT ![c] = NumberRows(0, entries, All(entries, "seed"))]
  BY DEF CreateConversation
<1> HIDE DEF entries
<1>6. rows' = [rows EXCEPT ![c] = @ \cup NumberRows(nextConversationItemSeq(@),
                                     entries, All(entries, "seed"))]
  BY Zenon, <1>2, <1>5 DEF IInv, TypeOK
<1> QED
  BY Zenon, <1>1, <1>3, <1>4, <1>6, AppendBatch DEF IInv

\* A turn that passes the version check appends its input and output.
LEMMA TurnAppends ==
  ASSUME IInv, NEW p \in Proc, SaveResponseAndAppendConversation(p)
  PROVE  \E new : Appended(req[p].conv, new,
             {(req[p].input \o req[p].output)[i].id :
                i \in DOMAIN (req[p].input \o req[p].output)})
<1> DEFINE c == req[p].conv
           input == req[p].input
           output == req[p].output
           entries == input \o output
           sources == All(input, "response_input") \o All(output, "response_output")
<1>1. req[p] \in Prepared
  BY RequestShape DEF IInv, SaveResponseAndAppendConversation
<1>2. c \in Conv /\ input \in Seq(Entry) /\ output \in Seq(Entry)
  BY <1>1 DEF Prepared
<1>3. rows' = [rows EXCEPT ![c] = @ \cup
                 NumberRows(nextConversationItemSeq(@), entries, sources)]
  BY DEF SaveResponseAndAppendConversation, BuildConversationAppendItems
<1>4. Insertable(entries)
  BY DEF SaveResponseAndAppendConversation
<1> HIDE DEF c, input, output
<1>5. entries \in Seq(Entry)
  BY <1>2
<1>6. All(input, "response_input") \in Seq(Sources)
      /\ All(output, "response_output") \in Seq(Sources)
      /\ Len(All(input, "response_input")) = Len(input)
      /\ Len(All(output, "response_output")) = Len(output)
  BY <1>2 DEF All, Sources
<1>7. sources \in [DOMAIN entries -> Sources]
  <2>1. sources \in Seq(Sources) /\ Len(sources) = Len(input) + Len(output)
    BY <1>6
  <2>2. Len(entries) = Len(input) + Len(output)
    BY <1>2
  <2>3. DOMAIN entries = 1..Len(entries)
    BY <1>5
  <2> HIDE DEF sources, entries
  <2> QED
    BY <2>1, <2>2, <2>3
<1> HIDE DEF entries, sources
<1>8. Appended(c, NumberRows(nextConversationItemSeq(rows[c]), entries, sources),
               {entries[i].id : i \in DOMAIN entries})
  BY Zenon, <1>2, <1>3, <1>4, <1>5, <1>7, AppendBatch DEF IInv
<1> QED
  BY Zenon, <1>8 DEF c, entries, input, output

\* AppendConversationItems appends its batch and moves the version.
LEMMA AppendAppends ==
  ASSUME IInv, NEW p \in Proc, AppendConversationItems(p)
  PROVE  \E new : Appended(req[p].conv, new,
             {req[p].input[i].id : i \in DOMAIN req[p].input})
<1> DEFINE c == req[p].conv
           entries == req[p].input
<1>1. req[p] \in Prepared
  BY RequestShape DEF IInv, AppendConversationItems
<1>2. c \in Conv /\ entries \in Seq(Entry)
  BY <1>1 DEF Prepared
<1>3. /\ Insertable(entries)
      /\ rows' = [rows EXCEPT ![c] = @ \cup
           NumberRows(nextConversationItemSeq(@), entries, All(entries, "append"))]
  BY DEF AppendConversationItems
<1>4. All(entries, "append") \in [DOMAIN entries -> Sources]
  BY DEF All, Sources
<1> HIDE DEF c, entries
<1>5. Appended(c, NumberRows(nextConversationItemSeq(rows[c]), entries,
                             All(entries, "append")),
               {entries[i].id : i \in DOMAIN entries})
  BY Zenon, <1>2, <1>3, <1>4, AppendBatch DEF IInv
<1> QED
  BY Zenon, <1>5 DEF c, entries

\* A transaction that bumps the version of c leaves every request of c with a
\* version that no longer matches, and the requests of other conversations alone.
LEMMA CommitKeepsFresh ==
  ASSUME IInv, NEW p \in Proc, req[p].pc = "save", VersionMatches(p),
         version' = [version EXCEPT ![req[p].conv] = @ + 1],
         req' = [req EXCEPT ![p] = Idle],
         \A d \in Conv \ {req[p].conv} : rows'[d] = rows[d]
  PROVE  FreshVersionFreshContext'
<1> DEFINE c == req[p].conv
<1>1. req[p] \in Prepared /\ c \in Conv
  BY RequestShape DEF IInv, Prepared
<1> SUFFICES ASSUME NEW q \in Proc
             PROVE  /\ req'[q].pc # "idle"
                         => req'[q].version <= version'[req'[q].conv]
                    /\ req'[q].pc \in {"generate", "save"}
                         /\ version'[req'[q].conv] = req'[q].version
                         => req'[q].base
                              = domainItemsFromConversation(rows'[req'[q].conv])
  BY DEF FreshVersionFreshContext, VersionMatches
<1>2. CASE q = p
  BY <1>2 DEF IInv, TypeOK, Idle
<1>3. CASE q # p
  <2>1. req'[q] = req[q]
    BY <1>3 DEF IInv, TypeOK
  <2>2. CASE req[q].pc = "idle"
    BY <2>1, <2>2
  <2>3. CASE req[q].pc # "idle"
    <3> DEFINE d == req[q].conv
               v == req[q].version
    <3>1. d \in Conv /\ v \in Nat /\ version[d] \in Nat /\ v <= version[d]
      BY <2>3, RequestShape
         DEF IInv, TypeOK, Reading, Prepared, FreshVersionFreshContext
    <3>2. version'[d] = IF d = c THEN version[d] + 1 ELSE version[d]
      BY <3>1 DEF IInv, TypeOK
    <3>3. d # c => rows'[d] = rows[d]
      BY <3>1
    <3>4. req[q].pc \in {"generate", "save"} /\ version[d] = v
            => req[q].base = domainItemsFromConversation(rows[d])
      BY DEF IInv, FreshVersionFreshContext, VersionMatches
    <3> HIDE DEF d, v, c
    <3>5. v <= version'[d] /\ (d = c => version'[d] # v)
      BY <3>1, <3>2
    <3>6. req[q].pc \in {"generate", "save"} /\ version'[d] = v
            => req[q].base = domainItemsFromConversation(rows'[d])
      BY <3>2, <3>3, <3>4, <3>5
    <3> QED
      BY <2>1, <3>5, <3>6 DEF d, v
  <2> QED
    BY <2>2, <2>3
<1> QED
  BY <1>2, <1>3

\* A request step that leaves the tables alone.
LEMMA LocalStep ==
  ASSUME IInv, NEW p \in Proc, UNCHANGED <<version, rows, responses>>,
         NEW x \in {Idle} \cup Reading \cup Prepared,
         req' = [req EXCEPT ![p] = x], issued' \in SUBSET Item,
         x # Idle => x.version <= version[x.conv],
         x \in Prepared /\ version[x.conv] = x.version
           => x.base = domainItemsFromConversation(rows[x.conv])
  PROVE  IInv'
<1>1. TypeOK'
  BY DEF IInv, TypeOK
<1>2. SeqsBounded' /\ EmptyBeforeCreate' /\ RowsAreUnique'
  BY DEF IInv, SeqsBounded, EmptyBeforeCreate, RowsAreUnique
<1>3. FreshVersionFreshContext'
  <2> SUFFICES ASSUME NEW q \in Proc
               PROVE  /\ req'[q].pc # "idle"
                           => req'[q].version <= version[req'[q].conv]
                      /\ req'[q].pc \in {"generate", "save"}
                           /\ version[req'[q].conv] = req'[q].version
                           => req'[q].base
                                = domainItemsFromConversation(rows[req'[q].conv])
    BY DEF FreshVersionFreshContext, VersionMatches
  <2>1. CASE q # p
    <3>1. req'[q] = req[q]
      BY <2>1 DEF IInv, TypeOK
    <3> QED
      BY <3>1 DEF IInv, FreshVersionFreshContext, VersionMatches
  <2>2. CASE q = p
    <3>1. req'[q] = x
      BY <2>2 DEF IInv, TypeOK
    <3>2. x.pc # "idle" => x # Idle
      BY DEF Idle
    <3>3. x.pc \in {"generate", "save"} => x \in Prepared
      BY DEF Idle, Reading
    <3> QED
      BY <3>1, <3>2, <3>3
  <2> QED
    BY <2>1, <2>2
<1> QED
  BY <1>1, <1>2, <1>3 DEF IInv

\* An empty store satisfies the invariant.
LEMMA InitIInv == Init => IInv
<1> SUFFICES ASSUME Init PROVE IInv
  OBVIOUS
<1>1. TypeOK
  BY DEF Init, TypeOK
<1>2. SeqsBounded
  BY DEF Init, SeqsBounded
<1>3. EmptyBeforeCreate /\ RowsAreUnique
  BY DEF Init, EmptyBeforeCreate, RowsAreUnique
<1>4. FreshVersionFreshContext
  BY DEF Init, FreshVersionFreshContext, Idle
<1> QED
  BY <1>1, <1>2, <1>3, <1>4 DEF IInv

\* CreateConversation touches only a conversation that does not exist yet.
LEMMA CreateKeepsIInv ==
  ASSUME IInv, NEW c \in Conv, NEW ids \in Batch,
         NEW kinds \in [DOMAIN ids -> Kinds], CreateConversation(c, ids, kinds)
  PROVE  IInv'
<1>1. PICK new, names : Appended(c, new, names)
  BY SeedAppends
<1>2. /\ rows' \in [Conv -> SUBSET Row]
      /\ SeqsBounded'
      /\ RowsAreUnique'
  BY <1>1, AppendedKeepsRows DEF IInv
<1>3. /\ version[c] = 0
      /\ version' = [version EXCEPT ![c] = 1]
      /\ issued' \in SUBSET Item
      /\ responses' = responses /\ req' = req
  BY Zenon, BatchOfEntries DEF CreateConversation, IInv, TypeOK
<1>4. TypeOK'
  BY <1>2, <1>3 DEF IInv, TypeOK
<1>5. \A d \in Conv \ {c} : rows'[d] = rows[d] /\ version'[d] = version[d]
  BY <1>1, <1>3 DEF IInv, TypeOK, Appended
<1>6. EmptyBeforeCreate'
  <2>1. version'[c] = 1
    BY <1>3 DEF IInv, TypeOK
  <2> QED
    BY <1>5, <2>1 DEF IInv, EmptyBeforeCreate
<1>7. FreshVersionFreshContext'
  <2> SUFFICES ASSUME NEW q \in Proc, req[q].pc # "idle"
               PROVE  /\ req[q].version <= version'[req[q].conv]
                      /\ req[q].pc \in {"generate", "save"}
                           /\ version'[req[q].conv] = req[q].version
                           => req[q].base
                                = domainItemsFromConversation(rows'[req[q].conv])
    BY <1>3 DEF FreshVersionFreshContext, VersionMatches
  <2>1. /\ req[q].conv \in Conv /\ req[q].version \in Nat \ {0}
        /\ req[q].version <= version[req[q].conv]
    BY RequestShape DEF IInv, Reading, Prepared, FreshVersionFreshContext
  <2>2. req[q].conv # c
    BY <1>3, <2>1
  <2>3. /\ version'[req[q].conv] = version[req[q].conv]
        /\ rows'[req[q].conv] = rows[req[q].conv]
    BY <1>5, <2>1, <2>2
  <2> QED
    BY <2>1, <2>3 DEF IInv, FreshVersionFreshContext, VersionMatches
<1> QED
  BY <1>2, <1>4, <1>6, <1>7 DEF IInv

\* A request reads the conversation's row: the first of its two queries.
LEMMA ArriveKeepsIInv ==
  ASSUME IInv, NEW p \in Proc, Arrive(p)
  PROVE  IInv'
<1>1. PICK c \in Conv, op \in Ops, input \in Seq(Entry) :
        SelectConversation(p, c, op, input)
  <2>1. PICK c \in Conv, ids \in Batch :
          \/ \E op \in {"create", "warmup", "delete"} :
               SelectConversation(p, c, op, [i \in DOMAIN ids |-> Message(ids[i])])
          \/ \E kinds \in [DOMAIN ids -> Kinds] :
               SelectConversation(p, c, "append",
                 [i \in DOMAIN ids |-> AppendEntry(ids[i], kinds[i])])
    BY Zenon DEF Arrive
  <2>2. [i \in DOMAIN ids |-> "message"] \in [DOMAIN ids -> Kinds]
    BY DEF Kinds
  <2>3. [i \in DOMAIN ids |-> Message(ids[i])] \in Seq(Entry)
    BY Zenon, <2>2, BatchOfEntries
  <2>4. \A kinds \in [DOMAIN ids -> Kinds] :
          [i \in DOMAIN ids |-> AppendEntry(ids[i], kinds[i])] \in Seq(Entry)
    BY Zenon, BatchOfEntries
  <2> QED
    BY Zenon, <2>1, <2>3, <2>4 DEF Ops
<1> DEFINE x == [pc |-> "items", op |-> op, conv |-> c, version |-> version[c],
                 input |-> input]
<1>2. /\ UNCHANGED <<version, rows, responses>>
      /\ req' = [req EXCEPT ![p] = x]
      /\ issued' = issued \cup {input[i].id : i \in DOMAIN input}
      /\ version[c] \in Nat \ {0}
  BY <1>1 DEF SelectConversation, IInv, TypeOK
<1>3. x \in Reading
  BY <1>2 DEF Reading
<1>4. issued' \in SUBSET Item
  <2>1. \A i \in DOMAIN input : input[i] \in Entry
    OBVIOUS
  <2>2. \A i \in DOMAIN input : input[i].id \in Item
    BY <2>1 DEF Entry
  <2> QED
    BY <1>2, <2>2 DEF IInv, TypeOK
<1>5. x.version <= version[x.conv] /\ x \notin Prepared
  BY <1>2 DEF Prepared
<1> HIDE DEF x
<1> QED
  BY Zenon, <1>2, <1>3, <1>4, <1>5, LocalStep

\* The second query reads rows that may be newer than the version.
LEMMA ReadKeepsIInv ==
  ASSUME IInv, NEW p \in Proc, SelectConversationItems(p)
  PROVE  IInv'
<1> DEFINE r == req[p]
           x == [pc |-> IF r.op \in {"create", "warmup"} THEN "generate" ELSE "save",
                 op |-> r.op, conv |-> r.conv, version |-> r.version,
                 input |-> r.input,
                 base |-> domainItemsFromConversation(rows[r.conv]),
                 output |-> <<>>]
<1>1. r \in Reading
  BY RequestShape DEF SelectConversationItems, IInv
<1>2. /\ UNCHANGED <<version, rows, responses, issued>>
      /\ req' = [req EXCEPT ![p] = x]
  BY DEF SelectConversationItems, IInv, TypeOK
<1>3. domainItemsFromConversation(rows[r.conv]) \in SUBSET Row
  BY <1>1 DEF Reading, domainItemsFromConversation, IInv, TypeOK
<1>4. x \in Prepared
  BY <1>1, <1>3 DEF Reading, Prepared
<1>5. /\ x.version <= version[x.conv]
      /\ x.base = domainItemsFromConversation(rows[x.conv])
  BY DEF SelectConversationItems, IInv, FreshVersionFreshContext
<1>6. issued' \in SUBSET Item
  BY <1>2 DEF IInv, TypeOK
<1> HIDE DEF x
<1> QED
  BY Zenon, <1>2, <1>4, <1>5, <1>6, LocalStep

\* Generation changes only what the request remembers.
LEMMA GenerateKeepsIInv ==
  ASSUME IInv, NEW p \in Proc,
         (\E cmp, out \in Item : Generate(p, cmp, out)) \/ CreateWarmup(p)
  PROVE  IInv'
<1>1. req[p] \in Prepared /\ req[p].pc = "generate"
  BY RequestShape DEF IInv, Generate, CreateWarmup
<1>2. /\ UNCHANGED <<version, rows, responses>>
      /\ issued' \in SUBSET Item
      /\ \E output \in Seq(Entry) :
           req' = [req EXCEPT ![p].pc = "save", ![p].output = output]
  <2>1. CASE CreateWarmup(p)
    <3>1. req' = [req EXCEPT ![p].pc = "save", ![p].output = req[p].output]
      BY Zenon, <1>1, <2>1 DEF CreateWarmup, IInv, TypeOK, Prepared
    <3> QED
      BY Zenon, <1>1, <2>1, <3>1 DEF CreateWarmup, IInv, TypeOK, Prepared
  <2>2. ASSUME NEW cmp \in Item, NEW out \in Item, Generate(p, cmp, out)
        PROVE  <1>2!1 /\ <1>2!2 /\ <1>2!3
    <3>1. Message(out) \in Entry /\ Compacted(req[p].base, cmp) \in Entry
      BY <1>1 DEF Message, Compacted, Entry, Kinds, Prepared, Row
    <3>2. /\ <<Message(out)>> \in Seq(Entry)
          /\ <<Compacted(req[p].base, cmp), Message(out)>> \in Seq(Entry)
      BY <3>1
    <3> QED
      BY Zenon, <2>2, <3>2 DEF Generate, IInv, TypeOK
  <2> QED
    BY <2>1, <2>2
<1>3. PICK output \in Seq(Entry) :
        req' = [req EXCEPT ![p].pc = "save", ![p].output = output]
  BY Zenon, <1>2
<1> DEFINE x == [req[p] EXCEPT !.pc = "save", !.output = output]
<1>4. req' = [req EXCEPT ![p] = x]
  BY Zenon, <1>3 DEF IInv, TypeOK
<1>5. x \in Prepared
  BY Zenon, <1>1 DEF Prepared
<1>6. /\ x.version = req[p].version /\ x.conv = req[p].conv
      /\ x.base = req[p].base
  BY <1>1 DEF Prepared
<1>7. /\ x.version <= version[x.conv]
      /\ version[x.conv] = x.version
           => x.base = domainItemsFromConversation(rows[x.conv])
  BY <1>1, <1>6 DEF IInv, FreshVersionFreshContext, VersionMatches
<1> HIDE DEF x
<1> QED
  BY Zenon, <1>2, <1>4, <1>5, <1>7, LocalStep

\* The transaction of a turn commits with a matching version or not at all.
LEMMA SaveKeepsIInv ==
  ASSUME IInv, NEW p \in Proc,
         SaveResponseAndAppendConversation(p) \/ AppendConversationItems(p)
  PROVE  IInv'
<1>1. req[p] \in Prepared /\ req[p].pc = "save" /\ req[p].conv \in Conv
  BY RequestShape DEF IInv, SaveResponseAndAppendConversation,
                      AppendConversationItems, Prepared
<1>2. PICK new, ids : Appended(req[p].conv, new, ids)
  BY Zenon, TurnAppends, AppendAppends
<1>3. /\ rows' \in [Conv -> SUBSET Row]
      /\ SeqsBounded'
      /\ RowsAreUnique'
  BY <1>1, <1>2, AppendedKeepsRows DEF IInv
<1>4. /\ VersionMatches(p)
      /\ version' = [version EXCEPT ![req[p].conv] = @ + 1]
      /\ req' = [req EXCEPT ![p] = Idle]
      /\ issued' = issued
  BY Zenon DEF SaveResponseAndAppendConversation, AppendConversationItems
<1>5. \A d \in Conv \ {req[p].conv} : rows'[d] = rows[d]
  BY <1>2 DEF IInv, TypeOK, Appended
<1>6. FreshVersionFreshContext'
  BY ZenonT(60), <1>1, <1>4, <1>5, CommitKeepsFresh
<1>7. responses' \subseteq [conv : Conv, version : Nat, base : SUBSET Row,
                           input : Seq(Entry), output : Seq(Entry)]
  <2>1. CASE AppendConversationItems(p)
    BY <2>1 DEF AppendConversationItems, IInv, TypeOK
  <2>2. CASE SaveResponseAndAppendConversation(p)
    <3>1. version[req[p].conv] + 1 \in Nat
      BY <1>1 DEF IInv, TypeOK
    <3>2. /\ req[p].base \in SUBSET Row
          /\ req[p].input \in Seq(Entry) /\ req[p].output \in Seq(Entry)
      BY <1>1 DEF Prepared
    <3> DEFINE n == [conv |-> req[p].conv, version |-> version[req[p].conv] + 1,
                     base |-> req[p].base, input |-> req[p].input,
                     output |-> req[p].output]
    <3>3. n \in [conv : Conv, version : Nat, base : SUBSET Row,
                 input : Seq(Entry), output : Seq(Entry)]
      BY Zenon, <1>1, <3>1, <3>2
    <3>4. responses' = responses \cup {n}
      BY Zenon, <2>2 DEF SaveResponseAndAppendConversation
    <3> HIDE DEF n
    <3> QED
      BY SMTT(30), <3>3, <3>4 DEF IInv, TypeOK
  <2> QED
    BY <2>1, <2>2
<1>8. TypeOK'
  <2>1. version[req[p].conv] \in Nat /\ version[req[p].conv] + 1 \in Nat
    BY <1>1 DEF IInv, TypeOK
  <2>2. version' \in [Conv -> Nat]
    BY Zenon, <1>4, <2>1 DEF IInv, TypeOK
  <2>3. req' \in [Proc -> {Idle} \cup Reading \cup Prepared]
    BY Zenon, <1>4 DEF IInv, TypeOK
  <2> QED
    BY Zenon, <1>3, <1>4, <1>7, <2>2, <2>3 DEF IInv, TypeOK
<1>9. EmptyBeforeCreate'
  <2>1. version'[req[p].conv] # 0
    BY <1>1, <1>4 DEF IInv, TypeOK
  <2>2. \A d \in Conv \ {req[p].conv} : version'[d] = version[d]
    BY <1>4 DEF IInv, TypeOK
  <2> QED
    BY <1>5, <2>1, <2>2 DEF IInv, EmptyBeforeCreate
<1> QED
  BY <1>3, <1>6, <1>8, <1>9 DEF IInv

\* DeleteConversationItem removes one row and moves the version.
LEMMA DeleteKeepsIInv ==
  ASSUME IInv, NEW p \in Proc, DeleteConversationItem(p)
  PROVE  IInv'
<1>1. req[p] \in Prepared /\ req[p].pc = "save" /\ req[p].conv \in Conv
  BY RequestShape DEF IInv, DeleteConversationItem, Prepared
<1>2. /\ VersionMatches(p)
      /\ version' = [version EXCEPT ![req[p].conv] = @ + 1]
      /\ req' = [req EXCEPT ![p] = Idle]
      /\ issued' = issued /\ responses' = responses
      /\ \E gone \in SUBSET rows[req[p].conv] :
           rows' = [rows EXCEPT ![req[p].conv] = @ \ gone]
  BY Zenon DEF DeleteConversationItem
<1>3. /\ rows' \in [Conv -> SUBSET Row]
      /\ \A d \in Conv : rows'[d] \subseteq rows[d]
      /\ \A d \in Conv \ {req[p].conv} : rows'[d] = rows[d]
  BY <1>1, <1>2 DEF IInv, TypeOK
<1>4. SeqsBounded'
  BY <1>3 DEF IInv, SeqsBounded
<1>5. RowsAreUnique'
  BY <1>3 DEF IInv, RowsAreUnique
<1>6. FreshVersionFreshContext'
  BY Zenon, <1>1, <1>2, <1>3, CommitKeepsFresh
<1>7. TypeOK'
  BY <1>1, <1>2, <1>3 DEF IInv, TypeOK
<1>8. EmptyBeforeCreate'
  <2>1. version'[req[p].conv] # 0
    BY <1>1, <1>2 DEF IInv, TypeOK
  <2>2. \A d \in Conv \ {req[p].conv} : version'[d] = version[d]
    BY <1>2 DEF IInv, TypeOK
  <2> QED
    BY <1>3, <2>1, <2>2 DEF IInv, EmptyBeforeCreate
<1> QED
  BY <1>4, <1>5, <1>6, <1>7, <1>8 DEF IInv

\* A request that fails leaves the store as it is.
LEMMA FailKeepsIInv ==
  ASSUME IInv, NEW p \in Proc, Fail(p)
  PROVE  IInv'
<1>1. /\ UNCHANGED <<version, rows, responses, issued>>
      /\ req' = [req EXCEPT ![p] = Idle]
  BY DEF Fail
<1>2. Idle \notin Prepared
  BY DEF Idle, Prepared
<1>3. issued' \in SUBSET Item
  BY <1>1 DEF IInv, TypeOK
<1> QED
  BY Zenon, <1>1, <1>2, <1>3, LocalStep

\* Every step keeps the invariant.
LEMMA NextKeepsIInv == IInv /\ [Next]_vars => IInv'
<1> SUFFICES ASSUME IInv, [Next]_vars
             PROVE  IInv'
  OBVIOUS
<1>1. CASE Create
  BY <1>1, CreateKeepsIInv DEF Create
<1>2. ASSUME NEW p \in Proc, Step(p)
      PROVE  IInv'
  BY <1>2, ArriveKeepsIInv, ReadKeepsIInv, GenerateKeepsIInv, SaveKeepsIInv,
     DeleteKeepsIInv, FailKeepsIInv DEF Step
<1>3. CASE UNCHANGED vars
  BY <1>3 DEF vars, IInv, TypeOK, SeqsBounded, EmptyBeforeCreate, RowsAreUnique,
              FreshVersionFreshContext, VersionMatches
<1> QED
  BY <1>1, <1>2, <1>3 DEF Next

\* The inductive invariant holds in every reachable state of the conversation
\* store, whatever requests are served and in whatever order their queries and
\* transactions run.
THEOREM SpecIInv == Spec => []IInv
BY InitIInv, NextKeepsIInv, PTL DEF Spec

\* Every variable keeps its type: in particular no request loses its shape
\* between the reads of GetConversation and the transaction that uses them.
THEOREM SpecTypeOK == Spec => []TypeOK
BY SpecIInv, PTL DEF IInv

\* A request whose version still matches at its UPDATE ... WHERE version = ?
\* holds the current context, although version and items were read by two
\* queries outside a transaction.
THEOREM SpecFreshVersionFreshContext == Spec => []FreshVersionFreshContext
BY SpecIInv, PTL DEF IInv

\* Item ids stay unique in the table and places unique in a conversation: the
\* MAX(seq) + 1 of nextConversationItemSeq never meets the UNIQUE constraint.
THEOREM SpecRowsAreUnique == Spec => []RowsAreUnique
BY SpecIInv, PTL DEF IInv

\* The ids of a turn are those of its input and those of its output.
LEMMA ConcatIds ==
  ASSUME NEW s \in Seq(Entry), NEW t \in Seq(Entry)
  PROVE  {(s \o t)[i].id : i \in DOMAIN (s \o t)}
           = {s[i].id : i \in DOMAIN s} \cup {t[i].id : i \in DOMAIN t}
<1> DEFINE u == s \o t
<1>1. /\ DOMAIN s = 1..Len(s) /\ DOMAIN t = 1..Len(t)
      /\ DOMAIN u = 1..(Len(s) + Len(t))
      /\ Len(s) \in Nat /\ Len(t) \in Nat
  OBVIOUS
<1>2. /\ \A i \in 1..Len(s) : u[i] = s[i]
      /\ \A i \in 1..Len(t) : u[Len(s) + i] = t[i]
  OBVIOUS
<1> HIDE DEF u
<1>3. ASSUME NEW i \in DOMAIN u
      PROVE  \/ \E j \in DOMAIN s : u[i] = s[j]
             \/ \E j \in DOMAIN t : u[i] = t[j]
  <2>1. CASE i <= Len(s)
    BY <1>1, <1>2, <2>1
  <2>2. CASE ~(i <= Len(s))
    <3>1. i - Len(s) \in 1..Len(t) /\ Len(s) + (i - Len(s)) = i
      BY <1>1, <2>2
    <3>2. u[i] = t[i - Len(s)]
      BY <1>2, <3>1
    <3> QED
      BY <1>1, <3>1, <3>2
  <2> QED
    BY <2>1, <2>2
<1>4. /\ \A j \in DOMAIN s : \E i \in DOMAIN u : u[i] = s[j]
      /\ \A j \in DOMAIN t : \E i \in DOMAIN u : u[i] = t[j]
  <2>1. \A j \in DOMAIN s : j \in DOMAIN u /\ u[j] = s[j]
    BY <1>1, <1>2
  <2>2. \A j \in DOMAIN t : Len(s) + j \in DOMAIN u /\ u[Len(s) + j] = t[j]
    BY <1>1, <1>2
  <2> QED
    BY <2>1, <2>2
<1>5. {u[i].id : i \in DOMAIN u}
        = {s[j].id : j \in DOMAIN s} \cup {t[j].id : j \in DOMAIN t}
  BY <1>3, <1>4
<1> QED
  BY Zenon, <1>5 DEF u

\* An append is an extension of the abstract log.
LEMMA AppendedExtends ==
  ASSUME TypeOK, NEW c \in Conv, NEW new, NEW ids, Appended(c, new, ids)
  PROVE  Log!Extends(c, ids)
<1>1. rows'[c] = rows[c] \cup new /\ \A d \in Conv \ {c} : rows'[d] = rows[d]
  BY DEF TypeOK, Appended
<1>2. \A r \in new : r \notin rows[c]
  BY DEF Appended
<1>3. rows'[c] \ rows[c] = new
  BY <1>1, <1>2
<1> QED
  BY <1>1, <1>3 DEF Log!Extends, Appended

\* The two reads, the generation and the compare-and-swap implement turns that
\* read their context and are added to the log in one step.
THEOREM SpecAtomicTurns == Spec => AtomicTurns
<1>1. Init => Log!Init
  BY DEF Init, Log!Init
<1>2. IInv /\ [Next]_vars => [Log!Next]_(Log!logVars)
  <2> SUFFICES ASSUME IInv, [Next]_vars
               PROVE  Log!Next \/ UNCHANGED Log!logVars
    OBVIOUS
  <2> DEFINE T(R) == {[conv |-> t.conv, base |-> t.base, input |-> t.input,
                       output |-> t.output] : t \in R}
  <2>1. ASSUME NEW c \in Conv, NEW ids \in Batch,
               NEW kinds \in [DOMAIN ids -> Kinds], CreateConversation(c, ids, kinds)
        PROVE  Log!Next
    <3>1. PICK new, names : Appended(c, new, names)
      BY <2>1, SeedAppends
    <3>2. Log!Extends(c, names)
      BY <3>1, AppendedExtends DEF IInv
    <3>3. responses' = responses
      BY <2>1 DEF CreateConversation
    <3> QED
      BY <3>2, <3>3 DEF Log!Next, Log!Add, Log!Extends
  <2>2. ASSUME NEW p \in Proc, AppendConversationItems(p)
        PROVE  Log!Next
    <3>1. req[p].conv \in Conv
      BY <2>2, RequestShape DEF IInv, AppendConversationItems, Prepared
    <3>2. PICK new : Appended(req[p].conv, new,
                       {req[p].input[i].id : i \in DOMAIN req[p].input})
      BY Zenon, <2>2, AppendAppends
    <3>3. Log!Extends(req[p].conv, {req[p].input[i].id : i \in DOMAIN req[p].input})
      BY <3>1, <3>2, AppendedExtends DEF IInv
    <3>4. responses' = responses
      BY <2>2 DEF AppendConversationItems
    <3> QED
      BY <3>1, <3>3, <3>4 DEF Log!Next, Log!Add, Log!Extends
  <2>3. ASSUME NEW p \in Proc, SaveResponseAndAppendConversation(p)
        PROVE  Log!Next
    <3> DEFINE c == req[p].conv
               input == req[p].input
               output == req[p].output
               t == [conv |-> c, base |-> req[p].base, input |-> input,
                     output |-> output]
    <3>1. req[p] \in Prepared /\ req[p].pc = "save" /\ VersionMatches(p)
      BY <2>3, RequestShape DEF IInv, SaveResponseAndAppendConversation
    <3>2. c \in Conv /\ input \in Seq(Entry) /\ output \in Seq(Entry)
      BY <3>1 DEF Prepared
    <3>3. PICK new : Appended(c, new, {(input \o output)[i].id :
                                          i \in DOMAIN (input \o output)})
      BY ZenonT(60), <2>3, TurnAppends
    <3>4. Log!Extends(c, {(input \o output)[i].id : i \in DOMAIN (input \o output)})
      BY Zenon, <3>2, <3>3, AppendedExtends DEF IInv
    <3>5. Log!Extends(c, Log!Ids(input) \cup Log!Ids(output))
      BY ZenonT(60), <3>2, <3>4, ConcatIds DEF Log!Ids
    <3>6. req[p].base = domainItemsFromConversation(rows[c])
      BY <3>1 DEF IInv, FreshVersionFreshContext
    <3>7. req[p].base = Log!Context(rows[c])
      BY <3>6 DEF domainItemsFromConversation, isTrustedConversationCompaction,
                  Log!Context, Log!Summary
    <3>8. T(responses') = T(responses) \cup {t}
      <4> DEFINE x == [conv |-> c, version |-> version[c] + 1,
                       base |-> req[p].base, input |-> input, output |-> output]
      <4>1. responses' = responses \cup {x}
        BY <2>3 DEF SaveResponseAndAppendConversation
      <4>2. /\ x.conv = c /\ x.base = req[p].base
            /\ x.input = input /\ x.output = output
        OBVIOUS
      <4> HIDE DEF x, c, input, output
      <4> QED
        BY <4>1, <4>2
    <3>9. t.conv = c /\ t.base = Log!Context(rows[c])
          /\ t.input = input /\ t.output = output
      BY <3>7
    <3> HIDE DEF c, input, output, t
    <3>10. /\ t \in T(responses') /\ T(responses') = T(responses) \cup {t}
           /\ t.conv = c /\ t.base = Log!Context(rows[c])
           /\ Log!Extends(c, Log!Ids(t.input) \cup Log!Ids(t.output))
      BY <3>5, <3>8, <3>9
    <3>11. PICK k \in Conv : k = c
      BY <3>2
    <3>12. Log!Turn(k)
      BY <3>10, <3>11 DEF Log!Turn, Log!Extends
    <3> QED
      BY <3>12 DEF Log!Next
  <2>4. ASSUME NEW p \in Proc, DeleteConversationItem(p)
        PROVE  Log!Next
    <3> DEFINE c == req[p].conv
               gone == {r \in rows[c] : r.id = req[p].input[1].id}
    <3>1. /\ c \in Conv /\ gone # {} /\ responses' = responses
          /\ rows' = [rows EXCEPT ![c] = @ \ gone]
      BY <2>4, RequestShape DEF IInv, DeleteConversationItem, Prepared
    <3>2. PICK r \in rows[c] : r \in gone
      BY <3>1
    <3>3. gone = {r}
      BY <3>1, <3>2 DEF IInv, RowsAreUnique
    <3> HIDE DEF c, gone
    <3>4. rows' = [rows EXCEPT ![c] = @ \ {r}]
      BY <3>1, <3>3
    <3> QED
      BY ZenonT(60), <3>1, <3>4 DEF Log!Next, Log!Remove
  <2>5. ASSUME NEW p \in Proc,
               \/ Arrive(p) \/ SelectConversationItems(p) \/ CreateWarmup(p)
               \/ Fail(p) \/ \E cmp, out \in Item : Generate(p, cmp, out)
        PROVE  UNCHANGED Log!logVars
    BY <2>5 DEF Arrive, SelectConversation, SelectConversationItems, CreateWarmup,
                Fail, Generate, Log!logVars
  <2>6. CASE UNCHANGED vars
    BY <2>6 DEF vars, Log!logVars
  <2> QED
    BY <2>1, <2>2, <2>3, <2>4, <2>5, <2>6 DEF Next, Create, Step
<1> QED
  BY <1>1, <1>2, SpecIInv, PTL DEF Spec, AtomicTurns, Log!Spec
=============================================================================
