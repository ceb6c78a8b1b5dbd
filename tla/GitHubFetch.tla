---------------------------- MODULE GitHubFetch ----------------------------
(***************************************************************************)
(* One fetch of the GitHub tab (integrations/github/source): two searches   *)
(* for reviews asked of the user, one for the user's own pull requests, the *)
(* profile, and the pushed branches that have no pull request.  Each        *)
(* request sees the service at its own moment, and pull requests are        *)
(* opened, reviewed, merged and closed in between.  How the repositories to *)
(* look for pushes in are chosen is the module PushedTiers.                 *)
(***************************************************************************)
EXTENDS Integers, FiniteSets

CONSTANTS Branches,    \* the branches of the model, each with at most one pull request
          Conditions,  \* the conditions a branch may be in
          MaxPerQuery, \* MAX_PER_QUERY, AUTHORED_FETCH_LIMIT: what one search brings
          MaxPairs,    \* MAX_PAIRS: how many pushes are asked about
          MaxBranches, \* MAX_BRANCHES: how many pushed branches are shown
          MaxMoves     \* bound: changes at the service during the fetch

ASSUME GitHubAssumption ==
    /\ IsFiniteSet(Branches)
    /\ MaxPerQuery \in Nat /\ MaxPairs \in Nat /\ MaxBranches \in Nat
    /\ \A c \in Conditions : c.pushed \in Nat

VARIABLES is,          \* the condition of each branch at the service
          gStep,       \* the request that comes next
          found,       \* query_prs: the bucket of each pull request found
          pairs,       \* the pushes found: the date of each branch's newest one
          lost,        \* the branches that nothing, or nothing readable, was said of
          fresh,       \* the branches that are shown as pushed, or "unavailable"
          profile,     \* "unasked", "known" or "unavailable"
          altered,     \* history: the branches whose condition changed meanwhile
          gEnd         \* "none", "items", or the error that failed the fetch

gVars == <<is, gStep, found, pairs, lost, fresh, profile, altered, gEnd>>

\* A condition: is there an open pull request, whose is it, who is asked to review
\* it, what its reviews and its checks say, and when was the branch pushed lately, by
\* the user, with a tip that is no merge (0 if it was not).  pr: "none", "open",
\* "merged", "closed".
HasOpen(b) == is[b].pr = "open"
Mine(b) == is[b].author = "me"

\* review-requested:@me also finds what user-review-requested:@me finds.
AsksYou(b) == HasOpen(b) /\ is[b].asked = "you"
AsksTeam(b) == HasOpen(b) /\ is[b].asked \in {"you", "team"}

\* _category_of: the first bucket that fits, in this order.
NeedsAction(c) == c.decision = "changes requested" \/ c.rollup = "failure"
Green(c) == c.decision \in {"approved", "none"} /\ c.rollup \in {"success", "none"}
Bucket(c) ==
    IF c.draft THEN "drafts"
    ELSE IF NeedsAction(c) THEN "needs actions"
    ELSE IF Green(c) THEN "ready to merge" ELSE "waiting"

\* _qualified_branch_of: no pull request of it is open or merged.
Qualifies(b) == is[b].pushed > 0 /\ is[b].pr \in {"none", "closed"}

\* newest_first[:n]: some of the oldest date that fits may have to stay out.
Newest(S, date, n) ==
    {T \in SUBSET S : /\ (T = S /\ Cardinality(S) <= n) \/ Cardinality(T) = n
                      /\ \A b \in T, c \in S \ T : date[b] >= date[c]}

GitHubInit ==
    /\ is \in [Branches -> Conditions]
    /\ gStep = "yours"
    /\ found = [b \in {} |-> ""]
    /\ pairs = [b \in {} |-> 0]
    /\ lost = {} /\ fresh = {}
    /\ profile = "unasked"
    /\ altered = {}
    /\ gEnd = "none"

\* The service goes on: a branch gets into any other condition.
Moves ==
    /\ gEnd = "none" /\ Cardinality(altered) < MaxMoves
    /\ \E b \in Branches \ altered, c \in Conditions :
          c # is[b] /\ is' = [is EXCEPT ![b] = c] /\ altered' = altered \cup {b}
    /\ UNCHANGED <<gStep, found, pairs, lost, fresh, profile, gEnd>>

\* setdefault: a bucket that is taken stays.
Claim(hits, into) ==
    found' = [b \in DOMAIN found \cup hits |-> IF b \in DOMAIN found THEN found[b] ELSE into[b]]

\* A search brings what it matches, or as much of it as one query may bring.
Search(step, next, matches, into) ==
    /\ gStep = step
    /\ \E hits \in SUBSET matches :
          /\ hits = matches \/ Cardinality(hits) = MaxPerQuery
          /\ Cardinality(hits) <= MaxPerQuery
          /\ Claim(hits, into)
    /\ gStep' = next
    /\ UNCHANGED <<is, pairs, lost, fresh, profile, altered, gEnd>>

SearchYours ==
    Search("yours", "team", {b \in Branches : AsksYou(b)}, [b \in Branches |-> "your review"])
SearchTeam ==
    Search("team", "authored", {b \in Branches : AsksTeam(b)}, [b \in Branches |-> "team review"])
SearchAuthored ==
    Search("authored", "profile", {b \in Branches : HasOpen(b) /\ Mine(b)},
           [b \in Branches |-> Bucket(is[b])])

\* How a search may be refused, and the error that stands for what would mend it.
Refusals == {"401", "403", "422", "rate limit", "scopes", "shape", "no answer"}
ErrorOf(refusal) ==
    CASE refusal = "401"               -> "AuthExpired"
      [] refusal \in {"403", "scopes"} -> "AccessNotAllowed"
      [] refusal \in {"422", "shape"}  -> "Malformed"
      [] OTHER                         -> "Unavailable"

\* A search that fails fails the tab, which would otherwise show part of an inbox.
SearchFails ==
    /\ gStep \in {"yours", "team", "authored"}
    /\ \E refusal \in Refusals : gEnd' = ErrorOf(refusal)
    /\ gStep' = "none"
    /\ UNCHANGED <<is, found, pairs, lost, fresh, profile, altered>>

\* The profile degrades to unavailable.
QueryProfile ==
    /\ gStep = "profile"
    /\ profile' \in {"known", "unavailable"}
    /\ gStep' = "activity"
    /\ UNCHANGED <<is, found, pairs, lost, fresh, altered, gEnd>>

\* Bug: MAX_PAIRS of the pushes, as they come.
LookUpUnsorted ==
    /\ gStep = "activity"
    /\ lost' \in SUBSET Branches
    /\ \E kept \in SUBSET {b \in Branches \ lost' : is[b].pushed > 0} :
          Cardinality(kept) <= MaxPairs /\ pairs' = [b \in kept |-> is[b].pushed]
    /\ gStep' = "qualify"
    /\ UNCHANGED <<is, found, fresh, profile, altered, gEnd>>

\* The newest pushes of the user in the repositories that are asked and answer, each
\* with its last ACTIVITY_PER_PAGE pushes.
LookUpActivity ==
    /\ gStep = "activity"
    /\ lost' \in SUBSET Branches
    /\ \E kept \in Newest({b \in Branches \ lost' : is[b].pushed > 0},
                          [b \in Branches |-> is[b].pushed], MaxPairs) :
          pairs' = [b \in kept |-> is[b].pushed]
    /\ gStep' = "qualify"
    /\ UNCHANGED <<is, found, fresh, profile, altered, gEnd>>

\* Bug: nobody asks for the pull requests of the branches.
QualifyUnasked ==
    /\ gStep = "qualify"
    /\ fresh' \in Newest(DOMAIN pairs, pairs, MaxBranches)
    /\ gEnd' = "items"
    /\ gStep' = "none"
    /\ UNCHANGED <<is, found, pairs, lost, profile, altered>>

\* One query asks for all of them, and what it does not say of one loses that one; the
\* newest that qualify are shown, and the tab is complete.
Qualify ==
    /\ gStep = "qualify"
    /\ \E read \in SUBSET DOMAIN pairs :
          /\ lost' = lost \cup (DOMAIN pairs \ read)
          /\ fresh' \in Newest({b \in read : Qualifies(b)}, pairs, MaxBranches)
    /\ gEnd' = "items"
    /\ gStep' = "none"
    /\ UNCHANGED <<is, found, pairs, profile, altered>>

\* Discovery, every lookup or the qualification fails: the group is unavailable.
PushedUnavailable ==
    /\ gStep \in {"activity", "qualify"}
    /\ lost' = Branches
    /\ fresh' = {}
    /\ gEnd' = "items"
    /\ gStep' = "none"
    /\ UNCHANGED <<is, found, pairs, profile, altered>>

GitHubNext ==
    \/ Moves \/ SearchYours \/ SearchTeam \/ SearchAuthored \/ SearchFails
    \/ QueryProfile \/ LookUpActivity \/ Qualify \/ PushedUnavailable

-----------------------------------------------------------------------------
\* There was no room for a branch of that date: MAX_PAIRS pushes were asked about, or
\* MAX_BRANCHES branches are shown, and none of them is older.
NoRoomFor(b) ==
    \/ Cardinality(DOMAIN pairs) = MaxPairs /\ \A c \in DOMAIN pairs : pairs[c] >= is[b].pushed
    \/ Cardinality(fresh) = MaxBranches /\ \A c \in fresh : pairs[c] >= is[b].pushed

\* A branch of the user is shown in one place: as a pull request, in the first of
\* the buckets that fit it, or as pushed.  Only a branch whose pull request was
\* opened, merged or closed between two requests of the fetch can be in both places
\* or in neither (the searches come first, fetch.py:25).  Only a full search leaves
\* out a pull request; only a repository that was not asked or did not answer
\* readably, or as many newer branches as fit, leaves out a pushed branch.
EveryBranchHasItsPlace ==
    gEnd = "items" => \A b \in Branches \ altered :
        /\ ~(b \in DOMAIN found /\ b \in fresh)
        /\ Mine(b) /\ Qualifies(b) /\ b \notin lost => b \in fresh \/ NoRoomFor(b)
        /\ Cardinality(DOMAIN found) < MaxPerQuery =>
              (b \in DOMAIN found <=> AsksTeam(b) \/ (HasOpen(b) /\ Mine(b)))
        /\ b \in DOMAIN found /\ Cardinality(DOMAIN found) < MaxPerQuery =>
              found[b] = IF AsksYou(b) THEN "your review"
                         ELSE IF AsksTeam(b) THEN "team review" ELSE Bucket(is[b])
=============================================================================
