----------------------------- MODULE UpsertNote -----------------------------
(***************************************************************************)
(* internal/gitlab/gitlab.go, UpsertNote, against the discussions of one   *)
(* merge request on GitLab.                                                *)
(*                                                                         *)
(* One call is a sequence of API requests: the pages of discussions, one   *)
(* at a time, then an update or a create.  People comment, reply and       *)
(* delete between any two of them, and so does the worker of another       *)
(* replica.  A request may fail, or take effect and lose its answer.       *)
(***************************************************************************)
EXTENDS Naturals, Sequences, FiniteSets

CONSTANTS
    Workers,      \* the workers posting on this merge request, one per replica
    Pipelines,    \* the pipelines whose reports they post
    NoPipeline,   \* the report of a note that is none
    PerPage,      \* discussions on a page of the list (100 in the code)
    People,       \* what people do: of "comment", "quote", "reply", "delete"
    Faults,       \* what fails: of "list", "update", "create", "lost"
    MaxUpserts,   \* bound: calls of UpsertNote
    MaxPeople     \* bound: things people do

ASSUME NoPipelineAssumption == NoPipeline \notin Pipelines
ASSUME PerPageAssumption == PerPage \in Nat \ {0}
ASSUME PeopleAssumption == People \subseteq {"comment", "quote", "reply", "delete"}
ASSUME FaultsAssumption == Faults \subseteq {"list", "update", "create", "lost"}
ASSUME BoundsAssumption == MaxUpserts \in Nat /\ MaxPeople \in Nat

VARIABLES
    threads,    \* the discussions of the merge request, oldest first
    nextNote,   \* the next note ID
    call,       \* per worker: its call of UpsertNote
    upserts,    \* how many calls have been made
    acts        \* how many things people have done

vars == <<threads, nextNote, call, upserts, acts>>

\* A discussion by its root note: its ID, who wrote it, whether it contains
\* the marker, and the pipeline it reports on; and who wrote its replies.
Authors == {"bot", "person", "system"}
Threads ==
    [id : Nat, by : Authors, marked : BOOLEAN, report : Pipelines \cup {NoPipeline},
     replies : Seq({"bot", "person"})]

\* "list": about to fetch the page; "update": about to edit the note target;
\* "create": every page has been read.  discussed: the report notes that had
\* replies when the call was made (history).
Call ==
    [pc : {"idle", "list", "update", "create"}, pipeline : Pipelines \cup {NoPipeline},
     page : Nat \ {0}, target : Nat, posted : BOOLEAN, discussed : SUBSET Nat]

TypeOK ==
    /\ threads \in Seq(Threads)
    /\ nextNote \in Nat
    /\ call \in [Workers -> Call]
    /\ upserts \in 0..MaxUpserts
    /\ acts \in 0..MaxPeople

Init ==
    /\ threads = <<>>
    /\ nextNote = 1
    /\ call = [w \in Workers |->
          [pc |-> "idle", pipeline |-> NoPipeline, page |-> 1, target |-> 0,
           posted |-> FALSE, discussed |-> {}]]
    /\ upserts = 0
    /\ acts = 0

-----------------------------------------------------------------------------
(* GitLab's discussions *)

IsReport(t) == t.by = "bot" /\ t.marked
Discussed(t) == t.replies # <<>>

DiscussedReportIds ==
    {threads[i].id : i \in {j \in DOMAIN threads : IsReport(threads[j]) /\ Discussed(threads[j])}}

\* CreateMergeRequestNote, or a person's comment: a discussion of its own.
AddThread(by, marked, report) ==
    /\ threads' = Append(threads,
          [id |-> nextNote, by |-> by, marked |-> marked, report |-> report, replies |-> <<>>])
    /\ nextNote' = nextNote + 1

\* UpdateMergeRequestNote.
EditNote(id, report) ==
    threads' = [i \in DOMAIN threads |->
        IF threads[i].id = id THEN [threads[i] EXCEPT !.report = report] ELSE threads[i]]

DropThread(i) == SubSeq(threads, 1, i - 1) \o SubSeq(threads, i + 1, Len(threads))

-----------------------------------------------------------------------------
(* UpsertNote *)

Start(w, p) ==
    /\ call[w].pc = "idle"
    /\ upserts < MaxUpserts
    /\ call' = [call EXCEPT ![w] =
          [pc |-> "list", pipeline |-> p, page |-> 1, target |-> 0,
           posted |-> FALSE, discussed |-> DiscussedReportIds]]
    /\ upserts' = upserts + 1
    /\ UNCHANGED <<threads, nextNote, acts>>

\* Mutant: pages counted from zero, the first one is never read.
OnPageFromZero(w) ==
    {i \in DOMAIN threads :
        call[w].page * PerPage < i /\ i <= (call[w].page + 1) * PerPage}

\* The discussions on the page the call asks for, as GitLab has them now.
OnPage(w) ==
    {i \in DOMAIN threads :
        (call[w].page - 1) * PerPage < i /\ i <= call[w].page * PerPage}

\* Mutants: replies are not looked at; the marker is not looked for.
ReusableDiscussed(t) == t.by # "system" /\ t.marked
ReusableUnmarked(t) == t.by # "system" /\ ~Discussed(t)

\* The marker-bearing root of a thread without replies.
Reusable(t) == t.by # "system" /\ t.marked /\ ~Discussed(t)

ReusableOnPage(w) == {i \in OnPage(w) : Reusable(threads[i])}

\* The page has such notes: the first one is the target.
FindNote(w) ==
    /\ call[w].pc = "list"
    /\ \E i \in ReusableOnPage(w) :
          /\ \A j \in ReusableOnPage(w) : i <= j
          /\ call' = [call EXCEPT ![w].pc = "update", ![w].target = threads[i].id]
    /\ UNCHANGED <<threads, nextNote, upserts, acts>>

NextPage(w) ==
    /\ call[w].pc = "list"
    /\ ReusableOnPage(w) = {}
    /\ call[w].page * PerPage < Len(threads)
    /\ call' = [call EXCEPT ![w].page = @ + 1]
    /\ UNCHANGED <<threads, nextNote, upserts, acts>>

\* Mutants: every page is taken for the last; the loop goes on with page 0;
\* the loop starts over at the first page.
OnlyPage(w) ==
    /\ call[w].pc = "list"
    /\ ReusableOnPage(w) = {}
    /\ call' = [call EXCEPT ![w].pc = "create"]
    /\ UNCHANGED <<threads, nextNote, upserts, acts>>
GoesOnWith(w, page) ==
    /\ call[w].pc = "list"
    /\ ReusableOnPage(w) = {}
    /\ call[w].page * PerPage >= Len(threads)
    /\ call' = [call EXCEPT ![w].page = page]
    /\ UNCHANGED <<threads, nextNote, upserts, acts>>
NoLastPage(w) == GoesOnWith(w, 0)
StartOver(w) == GoesOnWith(w, 1)

\* resp.NextPage = 0
LastPage(w) ==
    /\ call[w].pc = "list"
    /\ ReusableOnPage(w) = {}
    /\ call[w].page * PerPage >= Len(threads)
    /\ call' = [call EXCEPT ![w].pc = "create"]
    /\ UNCHANGED <<threads, nextNote, upserts, acts>>

Return(w, posted) == call' = [call EXCEPT ![w].pc = "idle", ![w].posted = posted]

\* posted is FALSE when the answer is lost: the worker sees an error, logs it
\* and does not retry.
Answers == {TRUE} \cup (IF "lost" \in Faults THEN {FALSE} ELSE {})

TargetExists(w) == \E i \in DOMAIN threads : threads[i].id = call[w].target
TargetIsOurs(w) ==
    \A i \in DOMAIN threads : threads[i].id = call[w].target => threads[i].by = "bot"

Update(w) ==
    /\ call[w].pc = "update"
    /\ TargetExists(w)
    /\ EditNote(call[w].target, call[w].pipeline)
    /\ \E posted \in Answers : Return(w, posted)
    /\ UNCHANGED <<nextNote, upserts, acts>>

Create(w) ==
    /\ call[w].pc = "create"
    /\ AddThread("bot", TRUE, call[w].pipeline)
    /\ \E posted \in Answers : Return(w, posted)
    /\ UNCHANGED <<upserts, acts>>

\* Mutant: the error is swallowed.
FailSilently(w) ==
    /\ \/ call[w].pc = "list" /\ "list" \in Faults
       \/ call[w].pc = "update" /\ "update" \in Faults
       \/ call[w].pc = "create" /\ "create" \in Faults
    /\ Return(w, TRUE)
    /\ UNCHANGED <<threads, nextNote, upserts, acts>>

\* A request is refused: an outage, a note that is gone by now, or a note
\* that is not the bot's to edit.
Fail(w) ==
    /\ \/ call[w].pc = "list" /\ "list" \in Faults
       \/ call[w].pc = "update" /\ ("update" \in Faults \/ ~TargetExists(w) \/ ~TargetIsOurs(w))
       \/ call[w].pc = "create" /\ "create" \in Faults
    /\ Return(w, FALSE)
    /\ UNCHANGED <<threads, nextNote, upserts, acts>>

Upsert(w) ==
    FindNote(w) \/ NextPage(w) \/ LastPage(w) \/ Update(w) \/ Create(w) \/ Fail(w)

-----------------------------------------------------------------------------
(* The rest of the merge request *)

Acts(what) ==
    /\ what \in People
    /\ acts < MaxPeople
    /\ acts' = acts + 1
    /\ UNCHANGED <<call, upserts>>

\* A comment, or a note GitLab writes about the merge request.
Comment(by) ==
    /\ Acts("comment")
    /\ AddThread(by, FALSE, NoPipeline)

\* A comment holding the raw text of a report, its marker included.
Quote ==
    /\ Acts("quote")
    /\ AddThread("person", TRUE, NoPipeline)

ReplyTo(i, by) ==
    threads' = [threads EXCEPT ![i].replies = Append(@, by)]

Reply(i) ==
    /\ Acts("reply")
    /\ threads[i].by # "system"
    /\ ReplyTo(i, "person")
    /\ UNCHANGED nextNote

\* The worker, between two upserts, answers a command given in a reply.
CommandReply(w, i) ==
    /\ call[w].pc = "idle"
    /\ IsReport(threads[i])
    /\ Discussed(threads[i])
    /\ threads[i].replies[Len(threads[i].replies)] = "person"
    /\ ReplyTo(i, "bot")
    /\ UNCHANGED <<nextNote, call, upserts, acts>>

DeleteReply(i) ==
    /\ Acts("delete")
    /\ \E k \in DOMAIN threads[i].replies :
          threads' = [threads EXCEPT ![i].replies =
              SubSeq(@, 1, k - 1) \o SubSeq(@, k + 1, Len(@))]
    /\ UNCHANGED nextNote

\* Deleting the only note removes the discussion from the list; deleting the
\* root of a longer one makes the first reply its root.  The bot's replies
\* carry the marker.
DeleteRoot(i) ==
    /\ Acts("delete")
    /\ threads[i].by # "system"
    /\ \/ /\ ~Discussed(threads[i])
          /\ threads' = DropThread(i)
          /\ UNCHANGED nextNote
       \/ /\ Discussed(threads[i])
          /\ threads' = [threads EXCEPT ![i] =
                [id |-> nextNote, by |-> Head(@.replies), marked |-> Head(@.replies) = "bot",
                 report |-> NoPipeline, replies |-> Tail(@.replies)]]
          /\ nextNote' = nextNote + 1

Environment ==
    \/ \E by \in {"person", "system"} : Comment(by)
    \/ Quote
    \/ \E i \in DOMAIN threads :
          \/ Reply(i)
          \/ DeleteReply(i)
          \/ DeleteRoot(i)
          \/ \E w \in Workers : CommandReply(w, i)

Next ==
    \/ \E w \in Workers : Upsert(w) \/ \E p \in Pipelines : Start(w, p)
    \/ Environment

Spec == Init /\ [][Next]_vars

\* A request ends, by its answer, an error or the timeout of the context.
\* Nobody has to start a call, comment, reply or delete.
Fairness == \A w \in Workers : WF_vars(Upsert(w))

FairSpec == Spec /\ Fairness

-----------------------------------------------------------------------------
(* Properties *)

BareReports == {i \in DOMAIN threads : IsReport(threads[i]) /\ ~Discussed(threads[i])}

\* client.go: "idempotent -- one note per MR, never spam".  With one worker,
\* whatever people say meanwhile and whichever requests fail or lose their
\* answer, the merge request never has two reports nobody has replied to.
OneBareReport == Cardinality(BareReports) <= 1

\* Replicas that race create at most one bare report each, however many
\* pipelines they post: the damage does not grow.
BareReportPerReplica == Cardinality(BareReports) <= Cardinality(Workers)

\* What a reader finds: once an upsert has been answered with success and no
\* other is running, the newest report is the one it posted.
NewestReportIsPosted ==
    \A w \in Workers :
        call[w].pc = "idle" /\ call[w].posted =>
            \E i \in DOMAIN threads :
                /\ IsReport(threads[i]) /\ threads[i].report = call[w].pipeline
                /\ \A j \in DOMAIN threads : IsReport(threads[j]) => j <= i

\* The text of the note id changes in this step.
Edited(id) ==
    \E i \in DOMAIN threads, j \in DOMAIN threads' :
        /\ threads[i].id = id /\ threads'[j].id = id
        /\ threads[i].report # threads'[j].report

\* UpsertNote: "the running report must never edit a note people are already
\* discussing".  The listing and the update are two requests, and the first
\* reply may come between them.
DiscussedNeverEdited ==
    [][\A i \in DOMAIN threads :
          IsReport(threads[i]) /\ Discussed(threads[i]) => ~Edited(threads[i].id)]_vars

\* What is left of the promise: the race is over with the call.  A report that
\* had replies when a call was made is not edited by it, by whichever replica,
\* over however many pages the listing takes.
DiscussedEarlierLeftAlone ==
    [][\A w \in Workers : Update(w) =>
          \A id \in call[w].discussed : ~Edited(id)]_vars

\* Whatever is quoted, deleted or moved to another page meanwhile, a call
\* edits no note without the marker.
UnmarkedUntouched ==
    [][\A i \in DOMAIN threads : ~threads[i].marked => ~Edited(threads[i].id)]_vars

\* Every call comes to an end, whatever else goes on in the merge request.
CallEnds == \A w \in Workers : call[w].pc # "idle" ~> call[w].pc = "idle"

\* One worker posting on a merge request keeps the promise of ReportBoard.
ReportPlaces == {i \in DOMAIN threads : IsReport(threads[i])}
LastPlace(i) == i \in ReportPlaces /\ \A j \in ReportPlaces : j <= i

Reports == [i \in ReportPlaces |-> threads[i].report]
LastDiscussed == \E i \in ReportPlaces : LastPlace(i) /\ Discussed(threads[i])

Board == INSTANCE ReportBoard WITH reports <- Reports, discussed <- LastDiscussed

ImplementsBoard == Board!Spec
=============================================================================
