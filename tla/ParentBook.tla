----------------------------- MODULE ParentBook -----------------------------
(***************************************************************************)
(* validity::ParentBook: what the pool makes of parents that are not its   *)
(* node's tip.  Shares of several sessions ask for a verdict; one of them  *)
(* asks the node and waits, the others take the verdict there is.  A       *)
(* question may be put again while an older answer is still on its way     *)
(* (PARENT_RECHECK is shorter than the node call's timeout), so answers    *)
(* can arrive out of order.                                                *)
(***************************************************************************)
EXTENDS Integers, FiniteSets

CONSTANTS Parent, Session,
          Real,         \* the parents that exist; the others are made up
          MaxParents    \* PARENT_MAX

VARIABLES node,     \* parent -> what the node makes of it
          book,     \* parent -> entry, for the parents in it
          asker     \* session -> the question it waits on

vars == <<node, book, asker>>

NotAsking == [at |-> "idle", prev |-> CHOOSE p \in Parent : TRUE, reply |-> "Unknown"]

Init ==
  /\ node = [p \in Parent |-> "absent"]
  /\ book = [p \in {} |-> 0]
  /\ asker = [s \in Session |-> NotAsking]

\* The node gets a block, or finds it invalid, at once or later.
NodeLearns(p) ==
  /\ \/ node[p] = "absent" /\ node' = [node EXCEPT ![p] = "valid"]
     \/ node[p] # "invalid" /\ node' = [node EXCEPT ![p] = "invalid"]
  /\ UNCHANGED <<book, asker>>

\* An entry is aged when PARENT_GRACE is over.
verdict(e) ==
  IF e.state = "Invalid" THEN "Invalid"
  ELSE IF e.state = "Unseen" /\ e.aged THEN "Unseen" ELSE "Take"

\* What lookup may keep before it adds p: at the limit the entries older than
\* PARENT_KEEP go, which can be any of the aged ones; then, if need be, all.
Kept(p) ==
  IF p \in DOMAIN book \/ Cardinality(DOMAIN book) < MaxParents THEN {DOMAIN book}
  ELSE {IF Cardinality(k) < MaxParents THEN k ELSE {} : k \in
          {k \in SUBSET DOMAIN book : \A q \in DOMAIN book \ k : book[q].aged}}

With(b, p, e) == [q \in DOMAIN b \cup {p} |-> IF q = p THEN e ELSE b[q]]

Entry(p) == IF p \in DOMAIN book THEN book[p]
            ELSE [state |-> "Unknown", aged |-> FALSE, due |-> TRUE]

\* Mutation: only a parent without a verdict is asked about.
Asks_once(e) == e.state = "Unknown" /\ e.due

Asks(e) == e.state # "Invalid" /\ e.due

\* parent_verdict up to its await; without a question the share has its verdict
\* at once.
Lookup(s, p) ==
  LET e == Entry(p)
      question == [at |-> "asking", prev |-> p, reply |-> "Unknown"]
  IN /\ asker[s].at = "idle"
     /\ \E kept \in Kept(p) :
          book' = With([q \in kept |-> book[q]], p, [e EXCEPT !.due = @ /\ ~Asks(e)])
     /\ asker' = IF Asks(e) THEN [asker EXCEPT ![s] = question] ELSE asker
     /\ UNCHANGED node

\* getblockheader, then getchaintips: an invalid block passes for known when it
\* is no tip of the node's or the second call fails.
NodeSays(p) ==
  CASE node[p] = "absent" -> {"Unseen"}
    [] node[p] = "valid" -> {"Known"}
    [] node[p] = "invalid" -> {"Invalid", "Known"}

\* The answer is of the moment the node gives it; it is recorded later.
Answer(s, replies) ==
  /\ asker[s].at = "asking"
  /\ \E r \in replies : asker' = [asker EXCEPT ![s].at = "answered", ![s].reply = r]
  /\ UNCHANGED <<node, book>>

NodeAnswers(s) == Answer(s, NodeSays(asker[s].prev))

CallFails(s) == Answer(s, {"Unknown"})

\* Mutation: the last answer stands.
Recorded_last(e, reply) == IF reply # "Unknown" THEN [e EXCEPT !.state = reply] ELSE e

\* Invalid stays invalid; an answer the node could not give changes nothing.
Recorded(e, reply) ==
  IF e.state # "Invalid" /\ reply # "Unknown" THEN [e EXCEPT !.state = reply] ELSE e

\* The rest of parent_verdict: the book may have been cleared meanwhile.
Record(s) ==
  LET j == asker[s]
      p == j.prev
      e == IF p \in DOMAIN book THEN Recorded(book[p], j.reply)
           ELSE [state |-> j.reply, aged |-> FALSE, due |-> FALSE]
  IN /\ j.at = "answered"
     /\ book' = With(book, p, e)
     /\ asker' = [asker EXCEPT ![s] = NotAsking]
     /\ UNCHANGED node

\* Time passes for an entry: its age, and PARENT_RECHECK since it was asked.
Ages(p) ==
  /\ p \in DOMAIN book /\ ~book[p].aged
  /\ book' = [book EXCEPT ![p].aged = TRUE]
  /\ UNCHANGED <<node, asker>>

RecheckDue(p) ==
  /\ p \in DOMAIN book /\ ~book[p].due
  /\ book' = [book EXCEPT ![p].due = TRUE]
  /\ UNCHANGED <<node, asker>>

Next ==
  \/ \E p \in Real : NodeLearns(p)
  \/ \E p \in Parent : Ages(p) \/ RecheckDue(p)
  \/ \E s \in Session : \/ \E p \in Parent : Lookup(s, p)
                        \/ NodeAnswers(s) \/ CallFails(s) \/ Record(s)

AskAbout(p) == Asks(Entry(p)) /\ \E s \in Session : Lookup(s, p)

\* Time passes, calls end and do not fail for ever, and work on a real parent goes
\* on arriving; made-up parents come and go as they like.
Fairness ==
  /\ \A p \in Real : /\ WF_vars(Ages(p)) /\ WF_vars(RecheckDue(p)) /\ SF_vars(AskAbout(p))
                     /\ SF_vars(\E s \in Session : asker[s].prev = p /\ NodeAnswers(s))
  /\ \A s \in Session : WF_vars(Record(s)) /\ WF_vars(NodeAnswers(s) \/ CallFails(s))

Spec == Init /\ [][Next]_vars /\ Fairness

-----------------------------------------------------------------------------
\* A parent the node has for good is not refused for good, though answers from
\* before it arrived may still come in (the recheck in lookup).
ValidIsTaken ==
  \A p \in Real : <>[](node[p] = "valid") =>
    <>[](p \in DOMAIN book => book[p].state # "Unseen")

\* A dead parent is refused.  One the node called invalid stays so while the book holds
\* it, whatever older answers arrive after (ParentBook::record); and one the node never
\* gets is refused in the end, unless the book keeps forgetting it (PARENT_GRACE, and the
\* comment on clearing in lookup).
DeadIsRefused ==
  /\ [][\A p \in DOMAIN book : (p \in DOMAIN book' /\ book[p].state = "Invalid") =>
          book'[p].state = "Invalid"]_vars
  /\ \A p \in Real : <>[](node[p] = "absent" /\ p \in DOMAIN book) =>
       <>[](verdict(Entry(p)) = "Unseen")
=============================================================================
