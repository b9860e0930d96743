---------------------------- MODULE UpdateChecker ----------------------------
(***************************************************************************)
(* The update checker, src/internal/update/update.go, from the manifests   *)
(* of the two channels to the chip of the page that shows an offer.        *)
(*                                                                         *)
(* Checks run beside one another: one goroutine checks periodically, and   *)
(* every press of the button is a request of its own.  Each reads the      *)
(* manifest some time before it takes the lock, and announces what it      *)
(* found after it has let go of it.  Releases come in any order, to their  *)
(* channels, and the user may install what is offered.                     *)
(*                                                                         *)
(* ran and pushed are history.                                             *)
(***************************************************************************)
EXTENDS Semver

CONSTANTS
  Releases,      \* versions that are released
  Builds,        \* versions a user may start with
  Requests       \* goroutines that serve POST /api/update/check

Periodic == "periodic"
Checkers == Requests \cup {Periodic}
Channels == {"stable", "dev"}

ASSUME UpdateAssumption ==
  /\ Releases \subseteq VersionType /\ Builds \subseteq VersionType
  /\ \A v \in Releases : v.semver
  /\ Periodic \notin Requests

VARIABLES
  current,      \* c.version
  devMode,      \* cfg.DevMode
  manifest,     \* of each channel: <<>>, or its version
  status,       \* c.status: <<>> before the first good check, or what it offers
  pc, channel,  \* of each checker: where it is, and the manifest it asks for,
  found, reply, \* the version it has read, and the status it returns
  page,         \* the status that the page shows
  ran,          \* versions that ran before
  pushed        \* versions announced by this process

checkers == <<pc, channel, found, reply>>
vars == <<current, devMode, manifest, status, checkers, page, ran, pushed>>

Quiet ==
  /\ pc = [c \in Checkers |-> "idle"] /\ channel = [c \in Checkers |-> "stable"]
  /\ found = [c \in Checkers |-> <<>>] /\ reply = [c \in Checkers |-> <<>>]

Init ==
  /\ current \in Builds /\ devMode \in BOOLEAN
  /\ manifest = [ch \in Channels |-> <<>>]
  /\ status = <<>> /\ page = <<>>
  /\ Quiet
  /\ ran = {} /\ pushed = {}

IsOffer(st) == st # <<>> /\ st[1].available

-----------------------------------------------------------------------------
(* Around the checker                                                      *)

\* A stable release becomes the latest release; every release refreshes the rolling dev one.
Release(v) ==
  /\ \A ch \in Channels : manifest[ch] # <<v>>
  /\ manifest' = [ch \in Channels |-> IF ch = "dev" \/ v.pre = <<>> THEN <<v>> ELSE manifest[ch]]
  /\ UNCHANGED <<current, devMode, status, checkers, page, ran, pushed>>

ToggleDevMode ==
  /\ devMode' = ~devMode
  /\ UNCHANGED <<current, manifest, status, checkers, page, ran, pushed>>

\* The user installs what the page offers: the process ends, in the midst of its checks,
\* and the new one starts.
Install ==
  /\ IsOffer(page)
  /\ current' = page[1].latest /\ ran' = ran \cup {current}
  /\ status' = <<>> /\ page' = <<>> /\ pushed' = {}
  /\ pc' = [c \in Checkers |-> "idle"] /\ channel' = [c \in Checkers |-> "stable"]
  /\ found' = [c \in Checkers |-> <<>>] /\ reply' = [c \in Checkers |-> <<>>]
  /\ UNCHANGED <<devMode, manifest>>

-----------------------------------------------------------------------------
(* Check                                                                   *)

BeginOn(c, ch) ==
  /\ pc[c] = "idle"
  /\ pc' = [pc EXCEPT ![c] = "fetch"] /\ channel' = [channel EXCEPT ![c] = ch]
  /\ UNCHANGED <<current, devMode, manifest, status, found, reply, page, ran, pushed>>

\* A plausible slip: the channel is chosen once.
BeginAsBefore(c) == BeginOn(c, channel[c])

\* manifestURL
Begin(c) == BeginOn(c, IF devMode THEN "dev" ELSE "stable")

\* The answer has been read and parsed; the lock is not yet taken.  A manifest without a
\* version is refused.
FetchAny(c) ==
  /\ pc[c] = "fetch"
  /\ found' = [found EXCEPT ![c] = manifest[channel[c]]]
  /\ pc' = [pc EXCEPT ![c] = "record"]
  /\ UNCHANGED <<current, devMode, manifest, status, channel, reply, page, ran, pushed>>

Fetch(c) == manifest[channel[c]] # <<>> /\ FetchAny(c)

\* failCheck leaves what was offered; the time and the error it sets are left out.
FetchFails(c) ==
  /\ pc[c] = "fetch"
  /\ reply' = [reply EXCEPT ![c] = status]
  /\ pc' = [pc EXCEPT ![c] = "answer"]
  /\ UNCHANGED <<current, devMode, manifest, status, found, channel, page, ran, pushed>>

\* A plausible slip: whatever differs is newer.
VerdictOnDifference(v) == <<[latest |-> v, available |-> v # current]>>

Verdict(v) == <<[latest |-> v, available |-> IsNewer(current, v)]>>

\* A plausible slip: only the first offer is announced.
IsFirstOffer(prev, st) == IsOffer(st) /\ ~IsOffer(prev)

IsNews(prev, st) == IsOffer(st) /\ (~IsOffer(prev) \/ prev[1].latest # st[1].latest)

Record(c) ==
  /\ pc[c] = "record"
  /\ status' = Verdict(found[c][1])
  /\ reply' = [reply EXCEPT ![c] = status']
  /\ found' = [found EXCEPT ![c] = <<>>]
  /\ pc' = [pc EXCEPT ![c] = IF IsNews(status, status') THEN "announce" ELSE "answer"]
  /\ UNCHANGED <<current, devMode, manifest, channel, page, ran, pushed>>

\* onUpdate: a page that is not connected misses the push.
Announce(c) ==
  /\ pc[c] = "announce"
  /\ page' \in {page, reply[c]}
  /\ pushed' = pushed \cup {reply[c][1].latest}
  /\ pc' = [pc EXCEPT ![c] = "answer"]
  /\ UNCHANGED <<current, devMode, manifest, status, channel, found, reply, ran>>

\* The page shows the answer to its button, whatever was pushed since.
Answer(c) ==
  /\ pc[c] = "answer"
  /\ page' = IF c = Periodic THEN page ELSE reply[c]
  /\ pc' = [pc EXCEPT ![c] = "idle"] /\ reply' = [reply EXCEPT ![c] = <<>>]
  /\ UNCHANGED <<current, devMode, manifest, status, channel, found, ran, pushed>>

\* refreshUpdateStatus, every hour.
Poll ==
  /\ page' = status
  /\ UNCHANGED <<current, devMode, manifest, status, checkers, ran, pushed>>

CheckStep(c) == Fetch(c) \/ FetchFails(c) \/ Record(c) \/ Announce(c) \/ Answer(c)

Next ==
  \/ \E v \in Releases : Release(v)
  \/ ToggleDevMode \/ Install \/ Poll
  \/ \E c \in Checkers : Begin(c) \/ CheckStep(c)

Spec == Init /\ [][Next]_vars

\* Requests for a manifest end within 30 seconds, and not every periodic one fails; the page
\* polls on a timer.
FairSpec ==
  /\ Spec
  /\ WF_vars(Poll) /\ WF_vars(Begin(Periodic)) /\ SF_vars(Fetch(Periodic))
  /\ \A c \in Checkers : WF_vars(CheckStep(c))

-----------------------------------------------------------------------------
(* Properties                                                              *)

Statuses == {<<>>} \cup {<<st>> : st \in [latest : Releases, available : BOOLEAN]}
Manifests == {<<>>} \cup {<<v>> : v \in Releases}

TypeOK ==
  /\ current \in Releases \cup Builds /\ devMode \in BOOLEAN
  /\ manifest \in [Channels -> Manifests]
  /\ status \in Statuses /\ page \in Statuses
  /\ pc \in [Checkers -> {"idle", "fetch", "record", "announce", "answer"}]
  /\ channel \in [Checkers -> Channels]
  /\ \A c \in Checkers : pc[c] = "record" => found[c] # <<>>
  /\ found \in [Checkers -> Manifests] /\ reply \in [Checkers -> Statuses]
  /\ ran \subseteq Releases \cup Builds /\ pushed \subseteq Releases

\* Whoever follows the offers never comes back to a version that ran before, whatever
\* channels are switched and in whatever order releases are made: "no phantom downgrade".
NeverGoesBack ==
  \A st \in {status, page} : IsOffer(st) => st[1].latest \notin ran \cup {current}

\* What the checker offers was pushed to the open pages, or is about to be.
OffersAreAnnounced ==
  IsOffer(status) =>
    \/ status[1].latest \in pushed
    \/ \E c \in Checkers :
         pc[c] = "announce" /\ IsOffer(reply[c]) /\ reply[c][1].latest = status[1].latest

\* Once a version stays the latest of the channel that stays chosen, the page comes to show
\* what it means for the version that runs, in spite of answers that overtake one another
\* and of pushes that are lost.
PageCatchesUp ==
  \A v \in Releases, m \in BOOLEAN :
    <>[](devMode = m /\ manifest[IF m THEN "dev" ELSE "stable"] = <<v>>)
      => <>[](page = Verdict(v))
=============================================================================
