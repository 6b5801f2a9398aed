---------------------------- MODULE MCPublished -----------------------------
(* Publications, publications of an earlier version that are migrated, and *)
(* private links, which share no state with publications here: a behaviour *)
(* exercises one of the three, chosen in the initial state.                *)
(*                                                                         *)
(* Publications: two actors, so that any two of a request, a scheduled     *)
(* refresh, a cleanup and a deletion overlap; two workspaces, so that one  *)
(* publication can be shared and a visitor of all workspaces has a next    *)
(* one; two publications under a limit of one, so that the limit is hit    *)
(* and the sweep runs; one restart or one failed write, at any step (of a  *)
(* private instance a failed write only, see Publishing).                  *)
(*                                                                         *)
(* Migration: the same, with one workspace that has an earlier publication *)
(* and files for it; the requests are those that create, migrate, delete   *)
(* or sweep publications, and one write may fail in a migration.           *)
(*                                                                         *)
(* Links: two actors, so that a download's lookup, load, scan or clean-up  *)
(* of the index overlaps with one creation, rotation, deletion or          *)
(* migration; two publications and two fresh tokens, so that each          *)
(* publication can have one, or one publication a second one; one token of *)
(* an earlier version, which both publications could inherit; one restart  *)
(* or one unreadable meta.json.                                            *)
(*                                                                         *)
(* Actors, publish IDs and fresh tokens are interchangeable.  Workspaces   *)
(* are not: os.ReadDir lists them in order and locks are taken in order.   *)
EXTENDS Publications, TLC

CONSTANTS a1, a2, p1, p2, Token, Legacy, NoToken

(* The constants of the links are what they are named for.                 *)
ASSUME LinksDiffer == NoPub \notin Pub /\ NoToken \notin Token /\ Legacy \subseteq Token

VARIABLES
  component,  \* the component of this behaviour
  token, legacyFiles, legacyRefs, index, loaded, at, key, old, new, found, remaining,
  discovered, binds, drawn, revoked, misread, expect, incidents

tokenVars == <<token, legacyFiles, legacyRefs, index, loaded, at, key, old, new, found,
  remaining, discovered, binds, drawn, revoked, misread, expect, incidents>>

Tokens == INSTANCE PublishedTokens WITH
  pc <- at, todo <- remaining, mishaps <- incidents

PublishedInit ==
  /\ component \in {"publications", "migration", "tokens"} /\ Init /\ Tokens!Init
  /\ component # "publications" => public
  /\ oldRefs = (IF component = "migration" THEN Inherited ELSE {}) /\ oldFiles = oldRefs

MigrationStages == {"migrate", "fill", "date", "fallback", "rebind", "adopt", "adoptFill",
  "adoptDate"}

(* Refreshes, downloads, deletions and sweeps, with one failure in the     *)
(* migration itself.                                                       *)
Migrating ==
  /\ Next
  /\ \A a \in Actor : pc'[a] \notin {"lock", "check", "draft", "save", "drop", "pinned"}
  /\ mishaps' # mishaps => \E a \in Actor : pc[a] \in MigrationStages /\ pc'[a] # "idle"

Removing == {"remove", "clear", "sweep", "unbind"}

(* All requests.  What a private instance has beside a public one is that  *)
(* publications are restored, and no limit; there a write may fail, while  *)
(* restarts and failing removals are left to the public one.               *)
Publishing ==
  /\ Next
  /\ ~public /\ mishaps' # mishaps =>
       \E a \in Actor : pc[a] \notin Removing /\ pc'[a] \notin {"idle", pc[a]}

PublishedNext ==
  /\ UNCHANGED component
  /\ \/ component = "publications" /\ Publishing /\ UNCHANGED tokenVars
     \/ component = "migration" /\ Migrating /\ UNCHANGED tokenVars
     \/ component = "tokens" /\ Tokens!Next /\ UNCHANGED vars

PublishedSpec == PublishedInit /\ [][PublishedNext]_<<component, vars, tokenVars>>

Interchangeable ==
  Permutations(Actor) \cup Permutations(Pub) \cup Permutations(Token \ Legacy)

-----------------------------------------------------------------------------
(* The properties of PublishedTokens (see there).                          *)

(* A live link is found.                                                   *)
LiveLinkIsFound == Tokens!LiveLinkIsFound

(* A link that was rotated or deleted is not served.                       *)
NewLinksDie == Tokens!NewLinksDie

(* An index that counts as complete is complete.                           *)
IndexIsComplete == Tokens!IndexIsComplete
=============================================================================
