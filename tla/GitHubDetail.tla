----------------------------- MODULE GitHubDetail -----------------------------
(***************************************************************************)
(* What a pull request's page and its diff are made of (integrations/github *)
(* /source/detail.py and diff.py): a job's requests are answered one after  *)
(* the other while people review, comment and push.  Each list is read up   *)
(* to a limit, from its oldest entry; that there may be more comments or    *)
(* files the page says, of reviews it does not.                             *)
(***************************************************************************)
EXTENDS Integers, Sequences, SequencesExt

CONSTANTS
    People, Author,             \* who may review; the pull request's author
    ReviewsLimit,               \* REVIEWS_FETCH_LIMIT
    CommentsLimit, CommentsShown, \* COMMENTS_FETCH_LIMIT, COMMENT_LIMIT
    FilesLimit,                 \* FILES_FETCH_LIMIT
    MaxReviews, MaxComments, MaxFiles   \* bounds on what the pull request has

ASSUME GitHubDetailAssumption ==
    /\ Author \in People
    /\ CommentsShown \in Nat \ {0} /\ CommentsLimit \in Nat /\ CommentsShown <= CommentsLimit
    /\ ReviewsLimit \in Nat /\ FilesLimit \in Nat /\ MaxComments \in Nat /\ MaxFiles \in Nat

VARIABLES
    reviews,     \* the reviews, oldest first: who and the state of it
    requested,   \* whose review is asked for
    written,     \* the number of comments
    changed,     \* the number of changed files
    nextRead,    \* the next request of the job, or how it ended
    readable,    \* can it be read whose review is asked for?
    askedThen,   \* the pull request as it was read: whose review was asked for
    detail,      \* the detail that is being put together
    stood,       \* history: how each one stood while the job ran, by what it may read
    had          \* history: the numbers of comments and files when they were read

detailJob == <<nextRead, readable, askedThen, detail, had>>
gdVars == <<reviews, requested, written, changed, stood, detailJob>>

Decisions == {"APPROVED", "CHANGES_REQUESTED", "DISMISSED"}
NoDetail == [reviewers |-> [p \in People |-> "none"], comments |-> <<>>, hidden |-> 0,
             more |-> FALSE, checks |-> "unavailable", files |-> 0, cut |-> FALSE]

-----------------------------------------------------------------------------
(* The pull request on GitHub.                                              *)

\* The state of the last review of `who' with one of the states.
Latest(who, events, states) ==
    LET last == SelectLastInSeq(events, LAMBDA r : r.who = who /\ r.state \in states)
    IN IF last = 0 THEN "none" ELSE events[last].state

\* client.first: up to `limit' entries.
FirstOf(list, limit) == SubSeq(list, 1, IF Len(list) < limit THEN Len(list) ELSE limit)
UpTo(count, limit) == IF count < limit THEN count ELSE limit

\* How `who' stands, when these are the reviews and the requests of one moment.
Stands(who, given, asked) ==
    IF who \in asked THEN "REQUESTED"
    ELSE IF Latest(who, given, Decisions) # "none" THEN Latest(who, given, Decisions)
    ELSE IF who = Author THEN "none" ELSE Latest(who, given, {"COMMENTED"})

\* The same, when no more than the oldest reviews can be read, and perhaps no request.
StandsLegibly(who, given, asked) ==
    Stands(who, FirstOf(given, ReviewsLimit), IF readable THEN asked ELSE {})

GitHubDetailInit ==
    /\ reviews = <<>> /\ requested \in {{}, People \ {Author}}
    /\ written = 0 /\ changed \in 0 .. MaxFiles
    /\ nextRead \in {"pull", "files"}
    /\ readable = TRUE /\ askedThen = {} /\ detail = NoDetail
    /\ stood = [p \in People |-> {}] /\ had = [comments |-> 0, files |-> 0]

UnderWay == nextRead = "reviews"
JobStays == UNCHANGED detailJob

\* The reviews and the requests become these; a dismissed decision of `who' may be
\* below a new request.
Become(given, asked, dismissed) ==
    /\ reviews' = given /\ requested' = asked
    /\ stood' = IF ~ UnderWay THEN stood
                ELSE [p \in People |-> stood[p] \cup {StandsLegibly(p, given, asked)}
                                          \cup (IF p \in dismissed THEN {"DISMISSED"} ELSE {})]
    /\ JobStays /\ UNCHANGED <<written, changed>>

Submit ==
    /\ Len(reviews) < MaxReviews
    /\ \E who \in People, state \in {"COMMENTED", "APPROVED", "CHANGES_REQUESTED"} :
          /\ who = Author => state = "COMMENTED"
          /\ Become(Append(reviews, [who |-> who, state |-> state]), requested \ {who}, {})

AskForReview ==
    \E who \in People \ ({Author} \cup requested) : Become(reviews, requested \cup {who}, {})

Dismiss ==
    \E i \in DOMAIN reviews :
        /\ reviews[i].state \in Decisions \ {"DISMISSED"}
        /\ Become([reviews EXCEPT ![i].state = "DISMISSED"], requested,
                    IF i <= ReviewsLimit THEN {reviews[i].who} ELSE {})

Write ==
    /\ written < MaxComments /\ written' = written + 1
    /\ JobStays /\ UNCHANGED <<reviews, requested, changed, stood>>

Pushed == changed' \in 0 .. MaxFiles /\ JobStays /\ UNCHANGED <<reviews, requested, written, stood>>

-----------------------------------------------------------------------------
(* The job.                                                                 *)

GitHubStays == UNCHANGED <<reviews, requested, written, changed>>

\* get_pull; requested_reviewers is part of it, and if it is misshapen nobody is asked.
ReadPull ==
    /\ nextRead = "pull" /\ nextRead' = "reviews"
    /\ readable' \in BOOLEAN
    /\ askedThen' = IF readable' THEN requested ELSE {}
    /\ stood' = [p \in People |-> {Stands(p, FirstOf(reviews, ReviewsLimit), askedThen')}]
    /\ GitHubStays /\ UNCHANGED <<detail, had>>

\* _commented_of, _decided_of: a later review of `who' takes the place of an earlier one.
Commented(who, events) == IF who = Author THEN "none" ELSE Latest(who, events, {"COMMENTED"})
Decided(who, events) == Latest(who, events, Decisions)

\* Bug: a decision beats a request made after it.
ReviewerByDecision(who, events) ==
    IF Decided(who, events) # "none" THEN Decided(who, events)
    ELSE IF who \in askedThen THEN "REQUESTED"
    ELSE Commented(who, events)

\* _reviewers_of: a request beats a past decision, which beats mere comments.
Reviewer(who, events) ==
    IF who \in askedThen THEN "REQUESTED"
    ELSE IF Decided(who, events) # "none" THEN Decided(who, events)
    ELSE Commented(who, events)

ReadReviews ==
    /\ nextRead = "reviews" /\ nextRead' = "comments"
    /\ LET events == FirstOf(reviews, ReviewsLimit)
       IN detail' = [detail EXCEPT !.reviewers = [p \in People |-> Reviewer(p, events)]]
    /\ GitHubStays /\ UNCHANGED <<readable, askedThen, stood, had>>

\* Bug: a full answer is taken for all there is.
MayHaveMoreBeyond(read) == read > CommentsLimit

\* _comments_of: the last of the comments that were read, and how many are before them.
MayHaveMore(read) == read >= CommentsLimit
ReadComments ==
    /\ nextRead = "comments" /\ nextRead' = "checks"
    /\ LET read == UpTo(written, CommentsLimit)
           hidden == IF read > CommentsShown THEN read - CommentsShown ELSE 0
       IN detail' = [detail EXCEPT !.comments = [i \in 1 .. read - hidden |-> hidden + i],
                                   !.hidden = hidden, !.more = MayHaveMore(read)]
    /\ had' = [had EXCEPT !.comments = written]
    /\ GitHubStays /\ UNCHANGED <<readable, askedThen, stood>>

\* _checks_of: what cannot be read is not an error.
ReadChecks ==
    /\ nextRead = "checks" /\ nextRead' = "done"
    /\ \E checks \in {"read", "unavailable"} : detail' = [detail EXCEPT !.checks = checks]
    /\ GitHubStays /\ UNCHANGED <<readable, askedThen, stood, had>>

\* fetch_diff.
IsCut(read) == read >= FilesLimit
ReadFiles ==
    /\ nextRead = "files" /\ nextRead' = "diff"
    /\ LET read == UpTo(changed, FilesLimit)
       IN detail' = [detail EXCEPT !.files = read, !.cut = IsCut(read)]
    /\ had' = [had EXCEPT !.files = changed]
    /\ GitHubStays /\ UNCHANGED <<readable, askedThen, stood>>

\* github_errors: any other request that fails ends the job.
DetailFails ==
    /\ nextRead \in {"pull", "reviews", "comments", "files"} /\ nextRead' = "failed"
    /\ detail' = NoDetail
    /\ GitHubStays /\ UNCHANGED <<readable, askedThen, stood, had>>

GitHubDetailNext ==
    \/ Submit \/ AskForReview \/ Dismiss \/ Write \/ Pushed
    \/ ReadPull \/ ReadReviews \/ ReadComments \/ ReadChecks \/ ReadFiles \/ DetailFails

-----------------------------------------------------------------------------
\* The reviewers are put together from two answers of different moments: each one is
\* shown as they stood at one moment of the job, by its requests if they can be read
\* and by the oldest ReviewsLimit reviews.  What is beyond these is missing on the page,
\* which does not say so.
ReviewersStoodSo ==
    nextRead \in {"comments", "checks", "done"} =>
        \A p \in People : detail.reviewers[p] \in stood[p]

\* A page that does not say there may be more has the newest comments, counts all the
\* others, and has all the files: at the limits, too.
NothingHiddenSilently ==
    nextRead \in {"done", "diff"} =>
        /\ ~ detail.more =>
              /\ Len(detail.comments) + detail.hidden = had.comments
              /\ had.comments > 0 => Last(detail.comments) = had.comments
        /\ ~ detail.cut => detail.files = had.files

\* What a page says of its pull request was so when it was read, by what is read of it.
\* Where comments or files may be missing, the page says so.
DetailIsHonest == ReviewersStoodSo /\ NothingHiddenSilently
=============================================================================
