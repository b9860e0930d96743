------------------------------ MODULE Settings ------------------------------
(***************************************************************************)
(* How settings are changed, kept and read again: handleConfig and         *)
(* handleSettings of src/internal/core/handlers.go:24-56, 251-350, Load,   *)
(* Set, Lookup and Save of src/internal/config/config.go and ApplySettings *)
(* of src/internal/wasmhost/host.go.                                       *)
(*                                                                         *)
(* A setting lives in three places: the Config in memory, the TOML file    *)
(* and the memory of the plugins that declare it.  POST /api/config works  *)
(* on a copy that it saves and then swaps in; POST /api/settings changes   *)
(* the Config in place, hands the plugins their values and then saves.     *)
(* Nothing locks the Config, so requests overlap; the process may crash    *)
(* between any two steps, the race of two requests on the map of plugin    *)
(* settings, which Go turns into a crash, included.                        *)
(*                                                                         *)
(* Of the Config the model has one number that Load fills in when it is 0  *)
(* (overlay_opacity, overlay_width and overlay_height are such), the list  *)
(* of disabled plugins and the settings that have a key.  The list matters *)
(* because the copy that POST /api/config works on is a copy of the        *)
(* struct: its slice has the array of the live list.  What a disabled      *)
(* plugin misses at the start is PluginStart's; those listed here declare  *)
(* no settings.  promise and mixed are history, as are before and alone of *)
(* a request.                                                              *)
(***************************************************************************)
EXTENDS Naturals, Sequences, FiniteSets
LOCAL INSTANCE SequencesExt

CONSTANTS
  Requests,      \* HTTP requests that may run at the same time
  Keys,          \* settings with a key
  LegacyKey,     \* the key that older files hold at the top level
  Values, Unset, \* the values of a key; Unset is ""
  Numbers,       \* the values of the number; 0 is one of them
  Lists,         \* the values of DisabledPlugins
  Order,         \* the plugins, in the order of s.plugins
  Declares,      \* the keys in the settings schema of each
  Posts          \* what is posted: the number, the list and keys, or some of them

Plugins == {Order[i] : i \in 1..Len(Order)}

DefaultNumber == 1

\* sanitizeDisabledPlugins: the first of equal IDs stays.
Sanitized(list) ==
  FoldLeft(LAMBDA ids, id : IF id \in ToSet(ids) THEN ids ELSE Append(ids, id), <<>>, list)

\* json.Decode of a list into a slice that has the array of old: what old has.
Overwritten(old, list) ==
  [i \in 1..Len(old) |-> IF i <= Len(list) THEN list[i] ELSE old[i]]

ASSUME SettingsAssumption ==
  /\ LegacyKey \in Keys /\ Unset \in Values
  /\ {0, DefaultNumber} \subseteq Numbers /\ Numbers \subseteq Nat
  /\ Order \in Seq(Plugins) /\ Declares \in [Plugins -> SUBSET Keys]
  /\ <<>> \in Lists /\ \A list \in Lists : list \in Seq(STRING) /\ Sanitized(list) \in Lists
  /\ Posts \subseteq [numbers : SUBSET Numbers, lists : SUBSET Lists,
                     keys : UNION {[K -> Values] : K \in SUBSET Keys}]
  /\ \A p \in Posts : \A list \in p.lists : \A old \in Lists : Overwritten(old, list) \in Lists
  /\ \A p \in Posts : Cardinality(p.numbers) <= 1 /\ Cardinality(p.lists) <= 1

VARIABLES
  up,        \* the process runs
  live,      \* *s.cfg
  file,      \* config.toml
  guest,     \* what each plugin was given last
  req,       \* the requests
  promise,   \* the configuration that the last request to run alone
             \* answered with success, until another request begins
  mixed      \* in this process requests overlapped, a plugin refused its
             \* settings or /api/config changed keys

vars == <<up, live, file, guest, req, promise, mixed>>

Configs == [number : Numbers, disabled : Lists, keys : [Keys -> Values]]
NoKeys == [k \in Keys |-> Unset]

\* Defaults
Default == [number |-> DefaultNumber, disabled |-> <<>>, keys |-> NoKeys]

\* A file is absent, empty, torn (it may not decode) or whole.
File(state, cfg, legacy) == [state |-> state, cfg |-> cfg, legacy |-> legacy]
NoFile(state) == File(state, Default, Unset)

Idle == [pc |-> "idle", kind |-> "config",
         post |-> [numbers |-> {}, lists |-> {}, keys |-> <<>>],
         new |-> Default, at |-> 1, before |-> Default, alone |-> FALSE]

NothingGiven == [p \in Plugins |-> [k \in Declares[p] |-> Unset]]

Init ==
  /\ up = FALSE /\ live = Default /\ guest = NothingGiven
  /\ file \in {NoFile("absent")} \cup
       {File("whole", [Default EXCEPT !.disabled = Sanitized(list)], v) : list \in Lists, v \in Values}
  /\ req = [r \in Requests |-> Idle]
  /\ promise = {} /\ mixed = FALSE

-----------------------------------------------------------------------------
(* Load and the start of the process                                       *)

\* The migration of a legacy key, and the fields that are filled in.
MigrateAlways(f) == [f.cfg.keys EXCEPT ![LegacyKey] = f.legacy]

Migrate(f) ==
  IF f.legacy # Unset /\ f.cfg.keys[LegacyKey] = Unset
  THEN [f.cfg.keys EXCEPT ![LegacyKey] = f.legacy] ELSE f.cfg.keys

Filled(n) == IF n = 0 THEN DefaultNumber ELSE n

Loaded(f) ==
  IF f.state = "whole"
  THEN [number |-> Filled(f.cfg.number), disabled |-> f.cfg.disabled, keys |-> Migrate(f)]
  ELSE Default

\* A torn file that happens to decode yields whatever it holds.
Load(cfg) == cfg = Loaded(file) \/ (file.state = "torn" /\ cfg.number # 0)

\* What Lookup yields for the keys that p declares.
LookupAll(p, cfg) == [k \in Declares[p] |-> cfg.keys[k]]

\* A first start writes the defaults.  Each plugin is given its settings by
\* Init; one that refuses them is initialised all the same.
Start ==
  /\ ~up /\ up' = TRUE
  /\ \E cfg \in Configs : Load(cfg) /\ live' = cfg
  /\ file' = IF file.state = "absent" THEN File("whole", Default, Unset) ELSE file
  /\ \E refusing \in SUBSET Plugins :
       /\ guest' = [p \in Plugins |->
                      IF p \in refusing THEN NothingGiven[p] ELSE LookupAll(p, live')]
       /\ mixed' = (refusing # {})
  /\ UNCHANGED <<req, promise>>

\* Load fails and main exits with log.Fatalf; the user removes the file.
RemoveFile ==
  /\ ~up /\ file.state = "torn"
  /\ file' = NoFile("absent")
  /\ UNCHANGED <<up, live, guest, req, promise, mixed>>

Busy == {r \in Requests : req[r].pc # "idle"}

\* A write that was under way leaves a part of the file.
Crash ==
  /\ up /\ up' = FALSE
  /\ req' = [r \in Requests |-> Idle]
  /\ \/ UNCHANGED file
     \/ (\E r \in Busy : req[r].pc = "write") /\ file' = NoFile("torn")
  /\ live' = Default /\ guest' = NothingGiven
  /\ UNCHANGED <<promise, mixed>>

-----------------------------------------------------------------------------
(* The requests                                                            *)

Posted(cfg, post) ==
  [number |-> IF post.numbers = {} THEN cfg.number ELSE CHOOSE n \in post.numbers : TRUE,
   disabled |-> IF post.lists = {} THEN cfg.disabled ELSE CHOOSE list \in post.lists : TRUE,
   keys |-> [k \in Keys |-> IF k \in DOMAIN post.keys THEN post.keys[k] ELSE cfg.keys[k]]]

\* Every request that is in progress overlaps one that begins.
Begin(r, request) ==
  req' = [q \in Requests |->
            IF q = r THEN [request EXCEPT !.alone = (Busy = {}), !.before = live]
            ELSE [req[q] EXCEPT !.alone = FALSE, !.before = Default]]

\* What decoding a post does to the live Config: its list is written over.
DecodeOver(post) ==
  live' = [live EXCEPT !.disabled =
             IF post.lists = {} THEN live.disabled
             ELSE Overwritten(live.disabled, CHOOSE list \in post.lists : TRUE)]

\* A plausible slip: the Config is not copied at all.
DecodeInPlace(post) == live' = Posted(live, post)

Decode(post) == DecodeOver(post)

BeginWith(r, request, keys) ==
  /\ up /\ req[r].pc = "idle"
  /\ Begin(r, request)
  /\ promise' = {}
  /\ mixed' = (mixed \/ Busy # {} \/ keys # live.keys)
  /\ UNCHANGED <<up, file, guest>>

\* handleConfig up to Save.
Updated(post) == [Posted(live, post) EXCEPT !.disabled = Sanitized(@)]

BeginConfig(r, post) ==
  /\ BeginWith(r, [Idle EXCEPT !.pc = "save", !.new = Updated(post)], Updated(post).keys)
  /\ Decode(post)

\* A field of the wrong type: the others are decoded, and then Decode fails.
RejectConfig(r, post) ==
  /\ BeginWith(r, [Idle EXCEPT !.pc = "failed"], live.keys)
  /\ Decode(post)

\* handleSettings up to the loop over the plugins: applyCoreSettings, Set.
BeginSettings(r, post) ==
  /\ up /\ req[r].pc = "idle" /\ post.numbers = {} /\ post.lists = {}
  /\ live' = Posted(live, post)
  /\ Begin(r, [Idle EXCEPT !.pc = "apply", !.kind = "settings", !.post = post])
  /\ promise' = {}
  /\ mixed' = (mixed \/ Busy # {})
  /\ UNCHANGED <<up, file, guest>>

\* declaredSettings
Declared(p, post) == Declares[p] \cap DOMAIN post.keys

Given(p, post) ==
  [guest EXCEPT ![p] = [k \in Declares[p] |->
                          IF k \in DOMAIN post.keys THEN post.keys[k] ELSE guest[p][k]]]

\* The loop of handleSettings for one plugin, which may declare none of the
\* keys.  After the last one *s.cfg is copied for Save.
AfterAll(r) == Len(Order) + 1

NextPlugin(r) == req[r].at + 1

ApplySettings(r) ==
  /\ req[r].pc = "apply" /\ req[r].at <= Len(Order)
  /\ req' = [req EXCEPT ![r].at =
               IF Declared(Order[req[r].at], req[r].post) = {} THEN NextPlugin(r)
               ELSE req[r].at + 1]
  /\ guest' = Given(Order[req[r].at], req[r].post)
  /\ UNCHANGED <<up, live, file, promise, mixed>>

EndApply(r) ==
  /\ req[r].pc = "apply" /\ req[r].at > Len(Order)
  /\ req' = [req EXCEPT ![r].pc = "save", ![r].post = Idle.post, ![r].new = live]
  /\ UNCHANGED <<up, live, file, guest, promise, mixed>>

\* An error is answered.
Fail(r) == req' = [req EXCEPT ![r] = [Idle EXCEPT !.pc = "failed", !.kind = req[r].kind,
                                         !.before = req[r].before, !.alone = req[r].alone]]

\* ApplySettings fails: the plugin may have taken the values or not.
PluginRefuses(r) ==
  /\ req[r].pc = "apply" /\ req[r].at <= Len(Order)
  /\ Declared(Order[req[r].at], req[r].post) # {}
  /\ guest' \in {guest, Given(Order[req[r].at], req[r].post)}
  /\ Fail(r) /\ mixed' = TRUE
  /\ UNCHANGED <<up, live, file, promise>>

\* MkdirAll or Create fails.
CreateFails(r) ==
  /\ req[r].pc = "save"
  /\ Fail(r)
  /\ UNCHANGED <<up, live, file, guest, promise, mixed>>

\* os.Create truncates.
Create(r) ==
  /\ req[r].pc = "save"
  /\ file' = NoFile("empty")
  /\ req' = [req EXCEPT ![r].pc = "write"]
  /\ UNCHANGED <<up, live, guest, promise, mixed>>

\* Encode.  The keys of /api/settings are those of the live map, and its list
\* may have been written over since it was copied.  Another request's write
\* into the same file may show through.
Written(r) ==
  IF req[r].kind = "config" THEN {req[r].new}
  ELSE {[number |-> req[r].new.number, disabled |-> list, keys |-> live.keys]
        : list \in {req[r].new.disabled, live.disabled}}

OthersWrite(r) ==
  file.state # "empty" \/ \E q \in Requests \ {r} : req[q].pc = "write"

Write(r) ==
  /\ req[r].pc = "write"
  /\ \/ \E cfg \in Written(r) : file' = File("whole", cfg, Unset)
     \/ OthersWrite(r) /\ file' = NoFile("torn")
  /\ req' = [req EXCEPT ![r].pc = "end"]
  /\ UNCHANGED <<up, live, guest, promise, mixed>>

WriteFails(r) ==
  /\ req[r].pc = "write"
  /\ file' \in {NoFile("empty"), NoFile("torn")}
  /\ Fail(r)
  /\ UNCHANGED <<up, live, guest, promise, mixed>>

\* handleConfig ends with the swap; both end with Reconnect, which
\* RLConnection models, and the answer.
Swap(r) == IF req[r].kind = "config" THEN req[r].new ELSE live

End(r) ==
  /\ req[r].pc = "end"
  /\ live' = Swap(r)
  /\ req' = [req EXCEPT ![r] = Idle]
  /\ promise' = IF req[r].alone THEN {live'} ELSE {}
  /\ UNCHANGED <<up, file, guest, mixed>>

Answered(r) ==
  /\ req[r].pc = "failed"
  /\ req' = [req EXCEPT ![r] = Idle]
  /\ UNCHANGED <<up, live, file, guest, promise, mixed>>

Step(r) ==
  \/ ApplySettings(r) \/ EndApply(r) \/ PluginRefuses(r)
  \/ Create(r) \/ CreateFails(r) \/ Write(r) \/ WriteFails(r)
  \/ End(r) \/ Answered(r)

Next ==
  \/ Start \/ RemoveFile \/ Crash
  \/ \E r \in Requests :
       \/ Step(r)
       \/ \E post \in Posts :
            BeginConfig(r, post) \/ RejectConfig(r, post) \/ BeginSettings(r, post)

Spec == Init /\ [][Next]_vars

-----------------------------------------------------------------------------
(* Properties                                                              *)

RequestType ==
  [pc : {"idle", "save", "write", "end", "failed", "apply"}, kind : {"config", "settings"},
   post : Posts \cup {Idle.post}, new : Configs, at : 1..Len(Order) + 1,
   before : Configs, alone : BOOLEAN]

TypeOK ==
  /\ up \in BOOLEAN /\ live \in Configs
  /\ file \in [state : {"absent", "empty", "torn", "whole"}, cfg : Configs, legacy : Values]
  /\ DOMAIN guest = Plugins /\ \A p \in Plugins : guest[p] \in [Declares[p] -> Values]
  /\ req \in [Requests -> RequestType]
  /\ promise \in SUBSET Configs
  /\ mixed \in BOOLEAN

Refilled(cfg) == [cfg EXCEPT !.number = Filled(@)]

\* The configuration that a request alone left, and answered with success, is
\* what the file holds, whole, and what the process has and has again after
\* any crash and restart, until another request begins; whatever failed or
\* overlapped before.  Only a number posted as 0 comes back as its default.
AckedSettingsSurvive ==
  \A cfg \in promise :
    /\ file.state = "whole" /\ Loaded(file) = Refilled(cfg)
    /\ up => Refilled(live) = Refilled(cfg)

\* A POST of /api/config that runs alone and fails, whether to decode or to
\* save, leaves the Config as it was but for the list of disabled plugins,
\* of which the posted list may have taken the first places.
FailedPostSparesTheRest ==
  \A r \in Requests :
    req[r].pc = "failed" /\ req[r].kind = "config" /\ req[r].alone =>
      \/ live = req[r].before
      \/ \E post \in Posts : \E list \in post.lists :
           live = [req[r].before EXCEPT !.disabled = Overwritten(req[r].before.disabled, list)]

\* Between requests every plugin has the values that the Config has for the
\* keys it declares, failed saves and restarts included, as long as requests
\* do not overlap, no plugin refuses, and /api/config changes no key.
PluginsHoldTheirSettings ==
  up /\ ~mixed /\ (\A r \in Requests : req[r].pc # "apply")
    => \A p \in Plugins : guest[p] = LookupAll(p, live)

-----------------------------------------------------------------------------
(* What a comment says, and the code does not do                           *)

\* "a decode error partway through the JSON must not leave the live config
\* half-mutated" (handlers.go:30-32): a POST of /api/config that runs alone
\* and fails leaves the Config as it was.
FailedPostChangesNothing ==
  \A r \in Requests :
    req[r].pc = "failed" /\ req[r].kind = "config" /\ req[r].alone
      => live = req[r].before
=============================================================================
