------------------------------- MODULE Seasons -------------------------------
(***************************************************************************)
(* A season of a leaderboard (features/leaderboards/server.ts): runs       *)
(* submitted, quarantined and reviewed, the table of best entries rebuilt  *)
(* by each of them, and the close that pays placements.                    *)
(*                                                                         *)
(* Submissions hold their player's lock, reviews and closes the game's, so *)
(* rebuilds of the table overlap.  A rebuild is a DELETE and an INSERT at  *)
(* READ COMMITTED: the DELETE removes the rows it saw when it began, waits *)
(* for those another transaction has deleted, and passes them over if that *)
(* one commits; the INSERT fails on the key of a row committed meanwhile.  *)
(* Definitions marked "Fault" are bugs the properties are tried against;   *)
(* nothing uses them.                                                      *)
(***************************************************************************)
EXTENDS Naturals, FiniteSets

CONSTANTS
  Runs,         \* runs started in the season
  Racer,        \* the player of each run
  Score,        \* what each run will score, all different
  QuarantineTop,\* quarantine_top_n
  TierUpTo,     \* the ranks the tiers reward
  Sessions,     \* transactions under way at once
  NoRun

Racers == {Racer[n] : n \in Runs}

ASSUME SeasonsAssumption ==
  /\ IsFiniteSet(Runs)
  /\ \A n \in Runs : Score[n] \in Nat
  /\ \A m, n \in Runs : Score[m] = Score[n] => m = n
  /\ QuarantineTop \in Nat /\ TierUpTo \in Nat /\ NoRun \notin Runs

VARIABLES
  status,       \* of the season
  submissions,  \* leaderboard_submissions: the runs submitted
  quarantined,  \* those that landed in the top, by their visibility column
  approved, rejected, \* leaderboard_reviews
  entries,      \* leaderboard_entries: each listed player's best run
  placed,       \* leaderboard_placements, with the rank at the last close
  rewarded,     \* players with the season's placement grant
  session       \* the transactions

reviews == <<approved, rejected>>
board == <<status, submissions, quarantined, reviews, entries, placed, rewarded>>
seasonsVars == <<board, session>>

Session ==
  [kind : {"idle", "submit", "reject", "approve", "close"},
   pc : {"begun", "deleting", "deleted", "inserting", "rebuilt"},
   run : Runs \cup {NoRun}, hidden : BOOLEAN, \* hidden: its own submission is quarantined
   saw : SUBSET Runs, gone : SUBSET Runs, adding : SUBSET Runs, added : SUBSET Runs]
IdleSession ==
  [kind |-> "idle", pc |-> "begun", run |-> NoRun, hidden |-> FALSE,
   saw |-> {}, gone |-> {}, adding |-> {}, added |-> {}]

SeasonsInit ==
  /\ status = "active"
  /\ submissions = {} /\ quarantined = {} /\ approved = {} /\ rejected = {}
  /\ entries = {}
  /\ placed = [p \in Racers |-> 0] /\ rewarded = {}
  /\ session = [x \in Sessions |-> IdleSession]

Busy == {x \in Sessions : session[x].kind # "idle"}
Others(x) == Busy \ {x}
PlayersOf(runs) == {Racer[n] : n \in runs}

\* Fault: a quarantined run counts like any other.
EligibleQuarantined(x) ==
  LET s == session[x]
      own == IF s.kind = "submit" THEN {s.run} ELSE {}
      no == IF s.kind = "reject" THEN rejected \cup {s.run} ELSE rejected
  IN  (submissions \cup own) \ no

\* The runs a transaction sees as visible or approved, and each player's best.
Eligible(x) ==
  LET s == session[x]
      own == IF s.kind = "submit" /\ ~s.hidden THEN {s.run} ELSE {}
      ok == IF s.kind = "approve" THEN approved \cup {s.run} ELSE approved
      no == IF s.kind = "reject" THEN rejected \cup {s.run} ELSE rejected
  IN  {n \in submissions \cup own :
         (n \notin quarantined /\ n \notin no) \/ (n \in quarantined /\ n \in ok)}

Best(runs) == {n \in runs : \A m \in runs : Racer[m] = Racer[n] => Score[m] <= Score[n]}

-----------------------------------------------------------------------------
(* Commands up to their rebuild. *)

GameLocked == \E x \in Busy : session[x].kind \in {"reject", "approve", "close"}

\* BoardSubmit: what assessRun and the quarantine decide is read here.
Submit(x, n) ==
  /\ session[x].kind = "idle"
  /\ \A y \in Busy : session[y].kind = "submit" => Racer[session[y].run] # Racer[n]
  /\ n \notin submissions
  /\ status = "active"
  /\ LET better == {Racer[m] : m \in {k \in submissions \ rejected :
                                        Racer[k] # Racer[n] /\ Score[k] > Score[n]}}
     IN  session' = [session EXCEPT ![x] =
           [IdleSession EXCEPT !.kind = "submit", !.run = n,
                               !.hidden = Cardinality(better) < QuarantineTop]]
  /\ UNCHANGED board

\* SubmissionReview is final.
Review(x, n, action) ==
  /\ session[x].kind = "idle" /\ ~GameLocked
  /\ n \in submissions \ (approved \cup rejected)
  /\ session' = [session EXCEPT ![x] = [IdleSession EXCEPT !.kind = action, !.run = n]]
  /\ UNCHANGED board

\* closeSeason, by SeasonUpsert or by autoclose, which chose the season before
\* it had the lock: a season that is closed may be closed again.
Close(x) ==
  /\ session[x].kind = "idle" /\ ~GameLocked
  /\ session' = [session EXCEPT ![x] = [IdleSession EXCEPT !.kind = "close"]]
  /\ UNCHANGED board

-----------------------------------------------------------------------------
(* rebuildEntries. *)

DeleteBegins(x) ==
  /\ session[x].kind # "idle" /\ session[x].pc = "begun"
  /\ session' = [session EXCEPT ![x].pc = "deleting", ![x].saw = entries]
  /\ UNCHANGED board

DeleteEnds(x) ==
  /\ session[x].pc = "deleting"
  /\ \A y \in Others(x) : session[y].gone \cap session[x].saw = {}
  /\ session' = [session EXCEPT ![x].pc = "deleted", ![x].gone = session[x].saw]
  /\ UNCHANGED board

InsertBegins(x) ==
  /\ session[x].pc = "deleted"
  /\ session' = [session EXCEPT ![x].pc = "inserting", ![x].adding = Best(Eligible(x))]
  /\ UNCHANGED board

\* Fault: the rows are upserted by player, and rows nobody deleted stay.
InsertEndsUpserting(x) ==
  LET keys == PlayersOf(session[x].adding)
  IN  /\ session[x].pc = "inserting"
      /\ session' = [session EXCEPT ![x].pc = "rebuilt", ![x].added = session[x].adding,
                       ![x].gone = @ \cup {n \in entries : Racer[n] \in keys}]
      /\ UNCHANGED board

\* A key another transaction has inserted or deleted is waited for; one that is
\* committed fails the transaction.
InsertEnds(x) ==
  LET keys == PlayersOf(session[x].adding)
  IN  /\ session[x].pc = "inserting"
      /\ \A y \in Others(x) : keys \cap PlayersOf(session[y].added \cup session[y].gone) = {}
      /\ keys \cap PlayersOf(entries \ session[x].gone) = {}
      /\ session' = [session EXCEPT ![x].pc = "rebuilt", ![x].added = session[x].adding]
      /\ UNCHANGED board

-----------------------------------------------------------------------------
(* The end of a transaction.  A DELETE that waits skips what is gone.      *)

Ended(x) ==
  [y \in Sessions |->
     IF y = x THEN IdleSession
     ELSE IF session[y].pc = "deleting"
          THEN [session[y] EXCEPT !.saw = @ \ session[x].gone] ELSE session[y]]

Table(x) == (entries \ session[x].gone) \cup session[x].added

CommitSubmit(x) ==
  LET n == session[x].run
  IN  /\ session[x].kind = "submit" /\ session[x].pc = "rebuilt"
      /\ submissions' = submissions \cup {n}
      /\ quarantined' = IF session[x].hidden THEN quarantined \cup {n} ELSE quarantined
      /\ entries' = Table(x)
      /\ session' = Ended(x)
      /\ UNCHANGED <<status, reviews, placed, rewarded>>

CommitReview(x) ==
  LET n == session[x].run
  IN  /\ session[x].kind \in {"reject", "approve"} /\ session[x].pc = "rebuilt"
      /\ approved' = IF session[x].kind = "approve" THEN approved \cup {n} ELSE approved
      /\ rejected' = IF session[x].kind = "reject" THEN rejected \cup {n} ELSE rejected
      /\ entries' = Table(x)
      /\ session' = Ended(x)
      /\ UNCHANGED <<status, submissions, quarantined, placed, rewarded>>

Rank(table, n) == Cardinality({m \in table : Score[m] > Score[n]}) + 1

\* The rank of a listed player, his placement and, within a tier, the grant,
\* which is kept from an earlier close.
CommitClose(x) ==
  LET table == Table(x)
      rankOf(p) == Rank(table, CHOOSE n \in table : Racer[n] = p)
  IN  /\ session[x].kind = "close" /\ session[x].pc = "rebuilt"
      /\ placed' = [p \in Racers |-> IF p \in PlayersOf(table) THEN rankOf(p) ELSE placed[p]]
      /\ rewarded' = rewarded \cup {p \in PlayersOf(table) : rankOf(p) <= TierUpTo}
      /\ status' = "closed"
      /\ entries' = table
      /\ session' = Ended(x)
      /\ UNCHANGED <<submissions, quarantined, reviews>>

\* A key that was committed meanwhile, a lock timeout, a deadlock, a crash.
Fail(x) ==
  /\ session[x].kind # "idle"
  /\ session' = [session EXCEPT ![x] = IdleSession]
  /\ UNCHANGED board

\* SeasonUpsert may open a season again.
Reopen ==
  /\ status = "closed" /\ ~GameLocked
  /\ status' = "active"
  /\ UNCHANGED <<submissions, quarantined, reviews, entries, placed, rewarded, session>>

SeasonsNext ==
  \/ \E x \in Sessions :
       \/ \E n \in Runs : Submit(x, n) \/ Review(x, n, "reject") \/ Review(x, n, "approve")
       \/ Close(x)
       \/ DeleteBegins(x) \/ DeleteEnds(x) \/ InsertBegins(x) \/ InsertEnds(x)
       \/ CommitSubmit(x) \/ CommitReview(x) \/ CommitClose(x) \/ Fail(x)
  \/ Reopen

SeasonsSpec == SeasonsInit /\ [][SeasonsNext]_seasonsVars

-----------------------------------------------------------------------------
(* Properties. *)

SeasonsTypeOK ==
  /\ status \in {"active", "closed"}
  /\ submissions \subseteq Runs /\ quarantined \subseteq submissions
  /\ approved \subseteq submissions /\ rejected \subseteq submissions
  /\ entries \subseteq Runs
  /\ placed \in [Racers -> 0..Cardinality(Racers)] /\ rewarded \subseteq Racers
  /\ session \in [Sessions -> Session]

Visible ==
  {n \in submissions : (n \notin quarantined /\ n \notin rejected)
                     \/ (n \in quarantined /\ n \in approved)}

\* A player has one entry, however rebuilds overlap.
OneEntryEach == \A m, n \in entries : Racer[m] = Racer[n] => m = n

\* A close pays the players it should ("quarantined ignored", server.ts:406):
\* when a placement grant is minted its player has a run that is visible or
\* approved, whatever submissions rebuild the table at the same time.  The one
\* exception is a run rejected while a submission's INSERT waited to list it,
\* which came back after the close's own DELETE.
PaidWhenVisible ==
  [][\A p \in rewarded' \ rewarded :
       \/ p \in PlayersOf(Visible)
       \/ \E x \in Busy : \E n \in rejected \cap (entries \ session[x].gone) :
            session[x].kind = "close" /\ Racer[n] = p]_seasonsVars
=============================================================================
