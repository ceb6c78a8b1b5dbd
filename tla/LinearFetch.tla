----------------------------- MODULE LinearFetch -----------------------------
(***************************************************************************)
(* What Linear's fetch workers do with their MCP sessions                   *)
(* (integrations/linear/source.py): each makes a session of its own and     *)
(* calls the tools of its job in turn, page by page where a tool lists.     *)
(* Composed with McpSession: the session's steps are those of McpSession,   *)
(* and a job goes on with an answer or ends with the session's failure.     *)
(***************************************************************************)
EXTENDS McpSession, Lists, SequencesExt

CONSTANTS
    Projects,      \* list_projects at the service: a sequence of pages
    Issues,        \* list_issues at the service, likewise
    JobsOf,        \* the jobs each session may be made for
    PageLimit,     \* how many pages of a list a tool call follows at most
    CommentLimit,  \* COMMENT_LIMIT: the comments a page shows
    CommentsPage   \* COMMENTS_FETCH_LIMIT: the comments one call brings

\* The entries of these lists; `stamp' is the time of their last change.
Entries == UNION {Range(page.entries) : page \in Range(Projects) \cup Range(Issues)}

ASSUME PagesAssumption ==
    /\ \A pages \in {Projects, Issues} :
          /\ pages \in Seq(Range(pages)) /\ pages # <<>>
          /\ Len(pages) < PageLimit => pages[Len(pages)].next # "cursor"
          /\ \A page \in Range(pages) : page.entries \in Seq(Range(page.entries))
    /\ \A entry \in Entries : entry.stamp \in Int
ASSUME LimitsAssumption ==
    /\ PageLimit \in Nat \ {0}
    /\ CommentLimit \in Nat /\ CommentsPage \in Nat /\ CommentLimit <= CommentsPage

ASSUME JobsAssumption == \A s \in Sessions : JobsOf[s] \subseteq {"tab", "project", "issue"}

VARIABLES
    job,        \* what each session works on
    due,        \* the tools its job still has to call, the current one first
    entries,    \* the entries of each tool called, all its pages
    lastPage,   \* the page of the current tool that was read last
    outcome     \* "none", "failed", or "done"

jobVars == <<job, due, entries, lastPage, outcome>>
linearVars == <<vars, jobVars>>

\* fetch, _fetch_project_detail and _fetch_issue_detail: the tools in their order.
\* An issue that has a parent asks for it last.
Tools(j) ==
    CASE j = "tab"     -> {<<"get_user", "list_projects", "list_issues">>}
      [] j = "project" -> {<<"get_project", "list_issues">>}
      [] j = "issue"   -> {<<"get_issue", "list_comments", "list_children">>,
                           <<"get_issue", "list_comments", "list_children", "get_parent">>}

PagesOf(tool) ==
    CASE tool = "list_projects" -> Projects
      [] tool = "list_issues"   -> Issues
      [] OTHER                  -> << [entries |-> <<>>, next |-> "none"] >>

LinearInit ==
    /\ Init
    /\ job = [s \in Sessions |-> "tab"]
    /\ due = [s \in Sessions |-> <<>>]
    /\ entries = [s \in Sessions |-> <<>>]
    /\ lastPage = [s \in Sessions |-> 0]
    /\ outcome = [s \in Sessions |-> "none"]

\* A worker of the dashboard begins a job with a new session.
Begin(s) ==
    /\ New(s)
    /\ \E j \in JobsOf[s] : \E tools \in Tools(j) :
          /\ job' = [job EXCEPT ![s] = j]
          /\ due' = [due EXCEPT ![s] = tools]
    /\ entries' = [entries EXCEPT ![s] = [tool \in Range(due'[s]) |-> <<>>]]
    /\ lastPage' = [lastPage EXCEPT ![s] = 0]
    /\ outcome' = [outcome EXCEPT ![s] = "none"]

\* The job calls a tool only while it has one to call.
CallTool(s) == Call(s) /\ due[s] # <<>> /\ UNCHANGED jobVars

\* Bug: one page more than the limit.
FollowsOneMore(page, n) == page.next = "cursor" /\ n <= PageLimit

\* _pages stops after the last page, after PageLimit of them, and at a page that
\* says there is more without saying where.
Follows(page, n) == page.next = "cursor" /\ n < PageLimit

\* An answer is read: the next page of the tool, or the next tool, or the end.
ReadAnswer(s) ==
    LET tool == Head(due[s])
        n == lastPage[s] + 1
        page == PagesOf(tool)[n]
    IN /\ Answered(s)
       /\ entries' = [entries EXCEPT ![s][tool] = @ \o page.entries]
       /\ IF Follows(page, n)
          THEN /\ lastPage' = [lastPage EXCEPT ![s] = n]
               /\ UNCHANGED <<due, outcome>>
          ELSE /\ lastPage' = [lastPage EXCEPT ![s] = 0]
               /\ due' = [due EXCEPT ![s] = Tail(@)]
               /\ outcome' = [outcome EXCEPT ![s] =
                                 IF Tail(due[s]) = <<>> THEN "done" ELSE @]
       /\ UNCHANGED job

\* An answer that has not the shape it should ends the job: a tab and a project
\* look at each tool's answer, an issue at all of them after the last.
AnswerIsMalformed(s) ==
    /\ Answered(s)
    /\ job[s] = "issue" => Len(due[s]) = 1
    /\ outcome' = [outcome EXCEPT ![s] = "failed"]
    /\ due' = [due EXCEPT ![s] = <<>>]
    /\ UNCHANGED <<job, entries, lastPage>>

\* What the session cannot make up for fails the job.
JobFails(s) ==
    /\ CallFails(s) \/ CallUnauthorized(s) \/ HandshakeFails(s) \/ Initialize(s)
    /\ outcome' = [outcome EXCEPT ![s] = IF pc'[s] = "failed" THEN "failed" ELSE @]
    /\ UNCHANGED <<job, due, entries, lastPage>>

SessionGoesOn(s) == (Notify(s) \/ Record(s) \/ Drop(s)) /\ UNCHANGED jobVars

\* The job is over and so is its session.
JobIsOver(s) ==
    /\ outcome[s] # "none"
    /\ End(s)
    /\ outcome' = [outcome EXCEPT ![s] = "none"]
    /\ job' = [job EXCEPT ![s] = "tab"]
    /\ due' = [due EXCEPT ![s] = <<>>]
    /\ entries' = [entries EXCEPT ![s] = <<>>]
    /\ lastPage' = [lastPage EXCEPT ![s] = 0]

LinearStep(s) ==
    \/ Begin(s) \/ CallTool(s) \/ ReadAnswer(s) \/ AnswerIsMalformed(s)
    \/ JobFails(s) \/ SessionGoesOn(s) \/ JobIsOver(s)

LinearNext ==
    \/ Deploy /\ UNCHANGED jobVars
    \/ \E s \in Sessions : LinearStep(s)

LinearSpec == LinearInit /\ [][LinearNext]_linearVars

-----------------------------------------------------------------------------
(* What a job makes of its entries.                                         *)

\* The tab shows the viewer, the projects that are not closed in Linear's order,
\* and the issues that are not done, newest first.
OpenEntries == {entry \in Entries : ~ entry.closed}
OpenOf(s, tool) == Kept(entries[s][tool], OpenEntries)
NewestFirst(issues) == SortedBy(issues, [i \in DOMAIN issues |-> -issues[i].stamp])
TabItems(s) == OpenOf(s, "list_projects") \o NewestFirst(OpenOf(s, "list_issues"))

\* _comments_of: of one page of comments the newest are shown, the others counted.
Fetched(n) == IF n < CommentsPage THEN n ELSE CommentsPage
ShownComments(n) == IF Fetched(n) < CommentLimit THEN Fetched(n) ELSE CommentLimit
HiddenComments(n) ==
    IF Fetched(n) > CommentLimit THEN Fetched(n) - CommentLimit ELSE 0
IsLowerBound(n) == Fetched(n) >= CommentsPage \/ n > CommentsPage

\* The comments a page shows and those it counts are all there are, or the page says
\* that its count is a lower bound.
CommentsAreCounted ==
    \A n \in 0 .. 2 * CommentsPage :
        /\ ShownComments(n) + HiddenComments(n) <= n
        /\ ~IsLowerBound(n) => ShownComments(n) + HiddenComments(n) = n

\* All the pages that a list has up to its end or up to the limit.
Reachable(pages) ==
    LET cuts == {n \in DOMAIN pages : pages[n].next # "cursor"} \cup {PageLimit}
    IN FlattenSeq([i \in 1 .. CHOOSE n \in cuts : \A m \in cuts : n <= m |-> pages[i].entries])

\* A job that is done has every entry of every page it could reach, once, however
\* often its session was renewed and its calls repeated between two pages, and the
\* tab's items are the open projects and the open issues by age; an issue's page
\* owns up to every comment.
DoneJobsAreWhole ==
    \A s \in Sessions : outcome[s] = "done" =>
        /\ \A tool \in DOMAIN entries[s] : entries[s][tool] = Reachable(PagesOf(tool))
        /\ job[s] = "issue" => CommentsAreCounted
        /\ job[s] = "tab" =>
              LET items == TabItems(s)
                  listed == Range(Reachable(Projects)) \cup Range(Reachable(Issues))
                  split == Len(OpenOf(s, "list_projects"))
              IN /\ Range(items) = {e \in listed : ~ e.closed}
                 /\ \A i, j \in split + 1 .. Len(items) :
                       i < j => items[i].stamp >= items[j].stamp
=============================================================================
