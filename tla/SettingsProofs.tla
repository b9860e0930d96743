--------------------------- MODULE SettingsProofs ---------------------------
(***************************************************************************)
(* What survives of the settings, for any number of requests, keys and     *)
(* plugins.  A request that runs alone is followed from step to step       *)
(* (AloneInv); what it leaves is kept because only another request, whose  *)
(* beginning ends the promise, can write the file again.                   *)
(***************************************************************************)
EXTENDS Settings, SequenceTheorems, TLAPS

\* The Config is as it was, or its list of disabled plugins was written over.
Spared(cfg, before) ==
  \/ cfg = before
  \/ \E post \in Posts : \E list \in post.lists :
       cfg = [before EXCEPT !.disabled = Overwritten(before.disabled, list)]

\* While a request is alone no other one is in progress, the Config and the
\* file are as its own steps left them.
AloneInv ==
  \A r \in Requests : req[r].alone =>
    /\ Busy = {r} /\ promise = {}
    /\ req[r].kind = "settings" /\ req[r].pc \in {"save", "write", "end"}
         => req[r].new = live
    /\ req[r].kind = "config" /\ req[r].pc # "end" => Spared(live, req[r].before)
    /\ req[r].pc = "write" => file.state = "empty"
    /\ req[r].pc = "end" => file = File("whole", Swap(r), Unset)

PromiseInv == AckedSettingsSurvive /\ (promise # {} => Busy = {})

DownInv == ~up => Busy = {}

\* Without overlap, refusals and keys posted to /api/config, what a plugin
\* has differs from the Config only in keys that it is still to be given.
Pending(p, r) == \E i \in req[r].at..Len(Order) : Order[i] = p

HeldInv ==
  up /\ ~mixed =>
    /\ \A q, r \in Busy : q = r
    /\ \A r \in Busy :
         req[r].kind = "config" => req[r].new.keys = live.keys \/ req[r].pc = "failed"
    /\ \A r \in Requests, k \in Keys :
         req[r].pc = "apply" /\ k \in DOMAIN req[r].post.keys
           => live.keys[k] = req[r].post.keys[k]
    /\ \A p \in Plugins : \A k \in Declares[p] :
         \/ guest[p][k] = live.keys[k]
         \/ \E r \in Requests : /\ req[r].pc = "apply" /\ Pending(p, r)
                                /\ k \in DOMAIN req[r].post.keys

SettingsInv == TypeOK /\ AloneInv /\ PromiseInv /\ DownInv /\ HeldInv

-----------------------------------------------------------------------------
(* Data                                                                    *)

LEMMA DataTypes ==
  /\ Default \in Configs /\ Idle \in RequestType
  /\ NothingGiven \in [Plugins -> UNION {[K -> Values] : K \in SUBSET Keys}]
  /\ Len(Order) \in Nat
  /\ \A n \in Numbers : Filled(n) \in Numbers
<1>1. Default \in Configs
  BY SettingsAssumption DEF Default, Configs, NoKeys
<1>2. Len(Order) \in Nat
  BY SettingsAssumption, LenProperties
<1>3. Idle \in RequestType
  BY <1>1, <1>2 DEF Idle, RequestType
<1>4. NothingGiven \in [Plugins -> UNION {[K -> Values] : K \in SUBSET Keys}]
  BY SettingsAssumption DEF NothingGiven
<1>5. \A n \in Numbers : Filled(n) \in Numbers
  BY SettingsAssumption DEF Filled
<1> QED BY <1>1, <1>2, <1>3, <1>4, <1>5

\* What is posted on a configuration is a configuration again.
LEMMA PostedType ==
  ASSUME NEW cfg \in Configs, NEW post \in Posts
  PROVE  /\ Posted(cfg, post) \in Configs
         /\ \A k \in Keys : Posted(cfg, post).keys[k] =
              IF k \in DOMAIN post.keys THEN post.keys[k] ELSE cfg.keys[k]
<1>1. /\ post.numbers \in SUBSET Numbers /\ post.lists \in SUBSET Lists
      /\ \E K \in SUBSET Keys : post.keys \in [K -> Values]
  BY SettingsAssumption
<1>2. cfg.number \in Numbers /\ cfg.disabled \in Lists /\ cfg.keys \in [Keys -> Values]
  BY DEF Configs
<1>3. Posted(cfg, post).number \in Numbers
  BY <1>1, <1>2 DEF Posted
<1>4. Posted(cfg, post).keys \in [Keys -> Values]
  BY <1>1, <1>2 DEF Posted
<1>5. Posted(cfg, post).disabled \in Lists
  BY <1>1, <1>2 DEF Posted
<1> QED BY <1>3, <1>4, <1>5 DEF Posted, Configs

\* What /api/config works on, and what decoding it did to the live Config.
LEMMA UpdatedType ==
  ASSUME TypeOK, NEW post \in Posts
  PROVE  Updated(post) \in Configs /\ Updated(post).keys = Posted(live, post).keys
<1> DEFINE cfg == Posted(live, post)
<1>1. cfg \in Configs
  BY PostedType DEF TypeOK
<1>2. Updated(post) = [cfg EXCEPT !.disabled = Sanitized(cfg.disabled)]
  BY DEF Updated
<1> HIDE DEF cfg
<1>3. Sanitized(cfg.disabled) \in Lists
  BY <1>1, SettingsAssumption DEF Configs
<1>4. Updated(post) \in Configs /\ Updated(post).keys = cfg.keys
  BY <1>1, <1>2, <1>3 DEF Configs
<1> QED BY <1>4 DEF cfg

LEMMA Decoded ==
  ASSUME TypeOK, NEW post \in Posts, Decode(post)
  PROVE  live' \in Configs /\ live'.keys = live.keys /\ Spared(live', live)
<1>1. live \in Configs /\ post.lists \in SUBSET Lists
  BY SettingsAssumption DEF TypeOK
<1>2. CASE post.lists = {}
  <2>1. live' = [live EXCEPT !.disabled = live.disabled]
    BY <1>2 DEF Decode, DecodeOver
  <2>2. live' = live
    BY <1>1, <2>1 DEF Configs
  <2> QED BY <1>1, <2>2 DEF Spared
<1>3. CASE post.lists # {}
  <2>1. PICK list \in post.lists :
          live' = [live EXCEPT !.disabled = Overwritten(live.disabled, list)]
    BY <1>3 DEF Decode, DecodeOver
  <2>2. Overwritten(live.disabled, list) \in Lists
    BY <1>1, <2>1, SettingsAssumption DEF Configs
  <2> QED BY <1>1, <2>1, <2>2 DEF Configs, Spared
<1> QED BY <1>2, <1>3

\* A number filled in is not filled in again.
LEMMA RefilledTwice ==
  ASSUME NEW cfg \in Configs
  PROVE  Refilled(cfg) \in Configs /\ Refilled(Refilled(cfg)) = Refilled(cfg)
BY SettingsAssumption, DataTypes DEF Refilled, Filled, Configs, DefaultNumber

\* Saved and loaded again.
LEMMA LoadedBack ==
  ASSUME NEW cfg \in Configs
  PROVE  Loaded(File("whole", cfg, Unset)) = Refilled(cfg)
BY DEF Loaded, File, Migrate, Refilled, Configs

-----------------------------------------------------------------------------
(* The requests after a step: who has which program counter, and what else *)
(* of them changed.                                                        *)

LEMMA Begun ==
  ASSUME TypeOK, NEW r \in Requests, NEW request \in RequestType, Begin(r, request)
  PROVE  /\ req' \in [Requests -> RequestType]
         /\ req'[r].pc = request.pc /\ req'[r].kind = request.kind
         /\ req'[r].post = request.post /\ req'[r].new = request.new
         /\ req'[r].at = request.at
         /\ req'[r].before = live /\ req'[r].alone = (Busy = {})
         /\ \A q \in Requests \ {r} :
              /\ req'[q].pc = req[q].pc /\ req'[q].kind = req[q].kind
              /\ req'[q].post = req[q].post /\ req'[q].new = req[q].new
              /\ req'[q].at = req[q].at
              /\ req'[q].alone = FALSE
<1>1. Default \in Configs /\ live \in Configs /\ (Busy = {}) \in BOOLEAN
  BY DataTypes DEF TypeOK
<1>2. [request EXCEPT !.alone = (Busy = {}), !.before = live] \in RequestType
  BY <1>1 DEF RequestType
<1>3. \A q \in Requests : [req[q] EXCEPT !.alone = FALSE, !.before = Default] \in RequestType
  BY <1>1 DEF RequestType, TypeOK
<1>4. req' \in [Requests -> RequestType]
  BY <1>2, <1>3 DEF Begin
<1>5. /\ req'[r] = [request EXCEPT !.alone = (Busy = {}), !.before = live]
      /\ \A q \in Requests \ {r} : req'[q] = [req[q] EXCEPT !.alone = FALSE, !.before = Default]
  BY DEF Begin
<1>6. \A q \in Requests : req[q] \in RequestType
  BY DEF TypeOK
<1>7. /\ req'[r].pc = request.pc /\ req'[r].kind = request.kind
      /\ req'[r].post = request.post /\ req'[r].new = request.new
      /\ req'[r].at = request.at
      /\ req'[r].before = live /\ req'[r].alone = (Busy = {})
  BY <1>5 DEF RequestType
<1>8. ASSUME NEW q \in Requests \ {r}
      PROVE  /\ req'[q].pc = req[q].pc /\ req'[q].kind = req[q].kind
             /\ req'[q].post = req[q].post /\ req'[q].new = req[q].new
             /\ req'[q].at = req[q].at
             /\ req'[q].alone = FALSE
  <2>1. req'[q] = [req[q] EXCEPT !.alone = FALSE, !.before = Default]
    BY <1>5, <1>8
  <2>2. req[q] \in RequestType
    BY <1>6, <1>8
  <2> QED BY <2>1, <2>2 DEF RequestType
<1> QED BY <1>4, <1>7, <1>8

\* The requests that begin at /api/config, and at /api/settings.
LEMMA BeginsType ==
  ASSUME TypeOK, NEW post \in Posts
  PROVE  /\ [Idle EXCEPT !.pc = "save", !.new = Updated(post)] \in RequestType
         /\ [Idle EXCEPT !.pc = "failed"] \in RequestType
         /\ [Idle EXCEPT !.pc = "apply", !.kind = "settings", !.post = post] \in RequestType
<1>1. Updated(post) \in Configs
  BY UpdatedType
<1>2. Idle \in RequestType
  BY DataTypes
<1> QED BY <1>1, <1>2 DEF RequestType

LEMMA Failed ==
  ASSUME TypeOK, NEW r \in Requests, Fail(r)
  PROVE  /\ req' \in [Requests -> RequestType]
         /\ req'[r].pc = "failed" /\ req'[r].kind = req[r].kind
         /\ req'[r].before = req[r].before /\ req'[r].alone = req[r].alone
         /\ \A q \in Requests \ {r} : req'[q] = req[q]
<1>1. Idle \in RequestType /\ req[r] \in RequestType
  BY DataTypes DEF TypeOK
<1>2. [Idle EXCEPT !.pc = "failed", !.kind = req[r].kind,
                   !.before = req[r].before, !.alone = req[r].alone] \in RequestType
  BY <1>1 DEF RequestType
<1>3. req'[r] = [Idle EXCEPT !.pc = "failed", !.kind = req[r].kind,
                            !.before = req[r].before, !.alone = req[r].alone]
  BY DEF Fail, TypeOK
<1> QED BY <1>1, <1>2, <1>3 DEF Fail, TypeOK, RequestType

\* A step of a request that changes its program counter only.
LEMMA Advanced ==
  ASSUME TypeOK, NEW r \in Requests, NEW pc \in {"write", "end"},
         req' = [req EXCEPT ![r].pc = pc]
  PROVE  /\ req' \in [Requests -> RequestType]
         /\ req'[r].pc = pc /\ req'[r].kind = req[r].kind /\ req'[r].new = req[r].new
         /\ req'[r].before = req[r].before /\ req'[r].alone = req[r].alone
         /\ \A q \in Requests \ {r} : req'[q] = req[q]
<1>1. req[r] \in RequestType /\ req \in [Requests -> RequestType]
  BY DEF TypeOK
<1>2. [req[r] EXCEPT !.pc = pc] \in RequestType
  BY <1>1 DEF RequestType
<1>3. req'[r] = [req[r] EXCEPT !.pc = pc] /\ \A q \in Requests \ {r} : req'[q] = req[q]
  BY <1>1
<1>4. req' \in [Requests -> RequestType]
  BY <1>1, <1>2
<1> QED BY <1>1, <1>3, <1>4 DEF RequestType

LEMMA Idled ==
  ASSUME TypeOK, NEW r \in Requests, req' = [req EXCEPT ![r] = Idle]
  PROVE  /\ req' \in [Requests -> RequestType]
         /\ req'[r].pc = "idle" /\ req'[r].alone = FALSE
         /\ \A q \in Requests \ {r} : req'[q] = req[q]
BY DataTypes DEF TypeOK, Idle

LEMMA Applied ==
  ASSUME TypeOK, NEW r \in Requests, ApplySettings(r)
  PROVE  /\ req' \in [Requests -> RequestType]
         /\ req'[r].at = req[r].at + 1
         /\ req'[r].pc = req[r].pc /\ req'[r].kind = req[r].kind
         /\ req'[r].post = req[r].post /\ req'[r].new = req[r].new
         /\ req'[r].before = req[r].before /\ req'[r].alone = req[r].alone
         /\ \A q \in Requests \ {r} : req'[q] = req[q]
<1>1. req' = [req EXCEPT ![r].at = req[r].at + 1]
  BY DEF ApplySettings, NextPlugin
<1>2. req[r].at + 1 \in 1..Len(Order) + 1 /\ req[r] \in RequestType
  BY DataTypes DEF TypeOK, RequestType, ApplySettings
<1> QED BY <1>1, <1>2 DEF TypeOK, RequestType

LEMMA AppliedAll ==
  ASSUME TypeOK, NEW r \in Requests, EndApply(r)
  PROVE  /\ req' \in [Requests -> RequestType]
         /\ req'[r].pc = "save" /\ req'[r].new = live
         /\ req'[r].kind = req[r].kind
         /\ req'[r].before = req[r].before /\ req'[r].alone = req[r].alone
         /\ \A q \in Requests \ {r} : req'[q] = req[q]
<1>1. Idle.post \in Posts \cup {Idle.post} /\ live \in Configs /\ req[r] \in RequestType
  BY DEF TypeOK
<1> QED BY <1>1 DEF EndApply, TypeOK, RequestType

GuestType == DOMAIN guest = Plugins /\ \A p \in Plugins : guest[p] \in [Declares[p] -> Values]

\* What a plugin has after it was given its part of a post.
LEMMA GivenType ==
  ASSUME TypeOK, NEW p \in Plugins, NEW post \in Posts \cup {Idle.post}
  PROVE  LET given == Given(p, post) IN
         /\ DOMAIN given = Plugins
         /\ \A q \in Plugins : given[q] \in [Declares[q] -> Values]
         /\ \A q \in Plugins \ {p} : given[q] = guest[q]
         /\ \A k \in Declares[p] :
              given[p][k] = IF k \in DOMAIN post.keys THEN post.keys[k] ELSE guest[p][k]
<1>1. \A k \in DOMAIN post.keys : post.keys[k] \in Values
  <2>1. CASE post \in Posts
    <3>1. \E K \in SUBSET Keys : post.keys \in [K -> Values]
      BY <2>1, SettingsAssumption
    <3> QED BY <3>1
  <2>2. CASE post = Idle.post
    BY <2>2 DEF Idle
  <2> QED BY <2>1, <2>2
<1>2. [k \in Declares[p] |-> IF k \in DOMAIN post.keys THEN post.keys[k] ELSE guest[p][k]]
        \in [Declares[p] -> Values]
  BY <1>1 DEF TypeOK
<1> QED BY <1>2 DEF Given, TypeOK

LEMMA TypesKept == TypeOK /\ [Next]_vars => TypeOK'
<1> SUFFICES ASSUME TypeOK, [Next]_vars PROVE TypeOK'
  OBVIOUS
<1>1. CASE UNCHANGED vars
  BY <1>1 DEF vars, TypeOK
<1>2. CASE Start
  <2>1. live' \in Configs
    BY <1>2 DEF Start
  <2>2. file' \in [state : {"absent", "empty", "torn", "whole"}, cfg : Configs, legacy : Values]
    BY <1>2, DataTypes, SettingsAssumption DEF Start, TypeOK, File
  <2>3. GuestType'
    <3>1. PICK refusing \in SUBSET Plugins :
            guest' = [p \in Plugins |->
                        IF p \in refusing THEN NothingGiven[p] ELSE LookupAll(p, live')]
      BY <1>2 DEF Start
    <3>2. \A p \in Plugins : NothingGiven[p] \in [Declares[p] -> Values]
      BY SettingsAssumption DEF NothingGiven
    <3>3. \A p \in Plugins : LookupAll(p, live') \in [Declares[p] -> Values]
      BY <2>1, SettingsAssumption DEF LookupAll, Configs
    <3> QED BY <3>1, <3>2, <3>3 DEF GuestType
  <2> QED BY <1>2, <2>1, <2>2, <2>3 DEF Start, TypeOK, GuestType
<1>3. CASE RemoveFile
  BY <1>3, DataTypes, SettingsAssumption DEF RemoveFile, TypeOK, NoFile, File
<1>4. CASE Crash
  <2>1. file' \in [state : {"absent", "empty", "torn", "whole"}, cfg : Configs, legacy : Values]
    BY <1>4, DataTypes, SettingsAssumption DEF Crash, TypeOK, NoFile, File
  <2>2. GuestType'
    BY <1>4, SettingsAssumption DEF Crash, NothingGiven, GuestType
  <2>3. req' \in [Requests -> RequestType] /\ live' \in Configs
    BY <1>4, DataTypes DEF Crash
  <2> QED BY <1>4, <2>1, <2>2, <2>3 DEF Crash, TypeOK, GuestType
<1>5. ASSUME NEW r \in Requests, NEW post \in Posts,
             BeginConfig(r, post) \/ RejectConfig(r, post)
      PROVE  TypeOK'
  <2>1. req' \in [Requests -> RequestType]
    BY <1>5, BeginsType, Begun DEF BeginConfig, RejectConfig, BeginWith
  <2>2. live' \in Configs
    BY <1>5, Decoded DEF BeginConfig, RejectConfig
  <2> QED BY <1>5, <2>1, <2>2 DEF BeginConfig, RejectConfig, BeginWith, TypeOK
<1>6. ASSUME NEW r \in Requests, NEW post \in Posts, BeginSettings(r, post)
      PROVE  TypeOK'
  <2>1. req' \in [Requests -> RequestType]
    BY <1>6, BeginsType, Begun DEF BeginSettings
  <2>2. live' \in Configs
    BY <1>6, PostedType DEF BeginSettings, TypeOK
  <2> QED BY <1>6, <2>1, <2>2 DEF BeginSettings, TypeOK
<1>7. ASSUME NEW r \in Requests, Step(r)
      PROVE  TypeOK'
  <2>1. CASE ApplySettings(r) \/ PluginRefuses(r)
    <3>1. req' \in [Requests -> RequestType]
      BY <2>1, Applied, Failed DEF PluginRefuses
    <3>2. Order[req[r].at] \in Plugins
      BY <2>1, DataTypes DEF ApplySettings, PluginRefuses, Plugins, TypeOK, RequestType
    <3>3. req[r].post \in Posts \cup {Idle.post}
      BY DEF TypeOK, RequestType
    <3>4. guest' \in {guest, Given(Order[req[r].at], req[r].post)}
      BY <2>1 DEF ApplySettings, PluginRefuses
    <3>5. GuestType'
      BY <3>2, <3>3, <3>4, GivenType DEF GuestType, TypeOK
    <3> QED BY <2>1, <3>1, <3>5 DEF ApplySettings, PluginRefuses, TypeOK, GuestType
  <2>2. CASE EndApply(r)
    BY <2>2, AppliedAll DEF EndApply, TypeOK
  <2>3. CASE Create(r)
    BY <2>3, Advanced, DataTypes, SettingsAssumption DEF Create, TypeOK, NoFile, File
  <2>4. CASE CreateFails(r)
    BY <2>4, Failed DEF CreateFails, TypeOK
  <2>5. CASE Write(r)
    <3>1. Written(r) \subseteq Configs
      BY DEF Written, TypeOK, RequestType, Configs
    <3>2. file' \in [state : {"absent", "empty", "torn", "whole"}, cfg : Configs,
                    legacy : Values]
      BY <2>5, <3>1, DataTypes, SettingsAssumption DEF Write, NoFile, File
    <3> QED BY <2>5, <3>2, Advanced DEF Write, TypeOK
  <2>6. CASE WriteFails(r)
    BY <2>6, Failed, DataTypes, SettingsAssumption DEF WriteFails, TypeOK, NoFile, File
  <2>7. CASE End(r)
    <3>1. live' \in Configs /\ promise' \in SUBSET Configs
      BY <2>7 DEF End, Swap, TypeOK, RequestType
    <3> QED BY <2>7, <3>1, Idled DEF End, TypeOK
  <2>8. CASE Answered(r)
    BY <2>8, Idled DEF Answered, TypeOK
  <2> QED BY <1>7, <2>1, <2>2, <2>3, <2>4, <2>5, <2>6, <2>7, <2>8 DEF Step
<1> QED BY <1>1, <1>2, <1>3, <1>4, <1>5, <1>6, <1>7 DEF Next

-----------------------------------------------------------------------------
(* A step of a request that is alone                                       *)

\* Who is alone after a step of r was so before it, and is r.
LEMMA OnlyTheAloneStep ==
  ASSUME AloneInv, NEW r \in Requests, req[r].pc # "idle",
         \A q \in Requests \ {r} : req'[q] = req[q],
         NEW q \in Requests, req'[q].alone, req'[r].alone => req[r].alone
  PROVE  q = r /\ req[r].alone /\ Busy = {r} /\ promise = {}
<1>1. req[q].alone
  BY DEF AloneInv
<1>2. Busy = {q} /\ r \in Busy /\ promise = {}
  BY <1>1 DEF AloneInv, Busy
<1> QED BY <1>1, <1>2

LEMMA AloneKept == TypeOK /\ AloneInv /\ DownInv /\ [Next]_vars => AloneInv'
<1> SUFFICES ASSUME TypeOK, AloneInv, DownInv, [Next]_vars PROVE AloneInv'
  OBVIOUS
<1>1. CASE UNCHANGED vars
  BY <1>1 DEF vars, AloneInv, Busy, Swap
<1>2. CASE Start \/ RemoveFile
  <2>1. \A r \in Requests : ~req[r].alone
    BY <1>2 DEF Start, RemoveFile, AloneInv, DownInv
  <2> QED BY <1>2, <2>1 DEF Start, RemoveFile, AloneInv
<1>3. CASE Crash
  BY <1>3 DEF Crash, AloneInv, Idle
<1>4. ASSUME NEW r \in Requests, NEW post \in Posts,
             BeginConfig(r, post) \/ RejectConfig(r, post) \/ BeginSettings(r, post)
      PROVE  AloneInv'
  <2> SUFFICES ASSUME NEW q \in Requests, req'[q].alone
               PROVE  /\ Busy' = {q} /\ promise' = {}
                      /\ req'[q].kind = "settings" /\ req'[q].pc \in {"save", "write", "end"}
                           => req'[q].new = live'
                      /\ req'[q].kind = "config" /\ req'[q].pc # "end"
                           => Spared(live', req'[q].before)
                      /\ req'[q].pc \notin {"write", "end"}
    BY DEF AloneInv
  <2>1. CASE BeginConfig(r, post) \/ RejectConfig(r, post)
    <3>1. PICK request \in RequestType :
            /\ Begin(r, request)
            /\ request.pc \in {"save", "failed"} /\ request.kind = "config"
      BY <2>1, BeginsType DEF BeginConfig, RejectConfig, BeginWith, Idle
    <3>2. q = r /\ Busy = {} /\ req'[r].pc \in {"save", "failed"} /\ req'[r].kind = "config"
          /\ req'[r].before = live
      BY <3>1, Begun
    <3>3. \A x \in Requests \ {r} : req'[x].pc = req[x].pc
      BY <3>1, Begun
    <3>4. Busy' = {r}
      BY <3>2, <3>3 DEF Busy
    <3>5. Spared(live', live)
      BY <2>1, Decoded DEF BeginConfig, RejectConfig
    <3> QED BY <2>1, <3>2, <3>4, <3>5 DEF BeginConfig, RejectConfig, BeginWith
  <2>2. CASE BeginSettings(r, post)
    <3> DEFINE request == [Idle EXCEPT !.pc = "apply", !.kind = "settings", !.post = post]
    <3>1. request \in RequestType /\ Begin(r, request)
      BY <2>2, BeginsType DEF BeginSettings
    <3>2. request.pc = "apply" /\ request.kind = "settings"
      BY DEF Idle
    <3> HIDE DEF request
    <3>3. q = r /\ Busy = {} /\ req'[r].pc = "apply" /\ req'[r].kind = "settings"
      BY <3>1, <3>2, Begun
    <3>4. \A x \in Requests \ {r} : req'[x].pc = req[x].pc
      BY <3>1, Begun
    <3>5. Busy' = {r}
      BY <3>3, <3>4 DEF Busy
    <3> QED BY <2>2, <3>3, <3>5 DEF BeginSettings
  <2> QED BY <1>4, <2>1, <2>2
<1>5. ASSUME NEW r \in Requests, Step(r)
      PROVE  AloneInv'
  <2>0. /\ req[r].pc # "idle" /\ \A q \in Requests \ {r} : req'[q] = req[q]
        /\ req'[r].alone => req[r].alone
    BY <1>5, Applied, AppliedAll, Failed, Advanced, Idled
       DEF Step, ApplySettings, EndApply, PluginRefuses, Create, CreateFails, Write, WriteFails,
           End, Answered
  <2> SUFFICES ASSUME NEW q \in Requests, req'[q].alone
               PROVE  /\ Busy' = {q} /\ promise' = {}
                      /\ req'[q].kind = "settings" /\ req'[q].pc \in {"save", "write", "end"}
                           => req'[q].new = live'
                      /\ req'[q].kind = "config" /\ req'[q].pc # "end"
                           => Spared(live', req'[q].before)
                      /\ req'[q].pc = "write" => file'.state = "empty"
                      /\ req'[q].pc = "end" => file' = File("whole", Swap(q)', Unset)
    BY DEF AloneInv
  <2>1. q = r /\ req[r].alone /\ Busy = {r} /\ promise = {}
    BY <2>0, OnlyTheAloneStep
  <2>2. /\ req[r].kind = "settings" /\ req[r].pc \in {"save", "write", "end"}
             => req[r].new = live
        /\ req[r].kind = "config" /\ req[r].pc # "end" => Spared(live, req[r].before)
        /\ req[r].pc = "write" => file.state = "empty"
    BY <2>1 DEF AloneInv
  <2>3. CASE ApplySettings(r) \/ EndApply(r)
    <3>1. Busy' = {r}
      BY <2>0, <2>1, <2>3, Applied, AppliedAll DEF Busy, ApplySettings
    <3> QED BY <2>1, <2>2, <2>3, <3>1, Applied, AppliedAll DEF ApplySettings, EndApply
  <2>4. CASE PluginRefuses(r) \/ CreateFails(r) \/ WriteFails(r)
    <3>1. Busy' = {r}
      BY <2>0, <2>1, <2>4, Failed DEF Busy, PluginRefuses, CreateFails, WriteFails
    <3> QED BY <2>1, <2>2, <2>4, <3>1, Failed DEF PluginRefuses, CreateFails, WriteFails
  <2>5. CASE Create(r)
    <3>1. Busy' = {r}
      BY <2>0, <2>1, <2>5, Advanced DEF Busy, Create
    <3> QED BY <2>1, <2>2, <2>5, <3>1, Advanced DEF Create, NoFile, File
  <2>6. CASE Write(r)
    <3>1. Busy' = {r}
      BY <2>0, <2>1, <2>6, Advanced DEF Busy, Write
    <3>2. ~OthersWrite(r)
      BY <2>1, <2>2, <2>6 DEF Write, OthersWrite, Busy
    <3>3. Written(r) = {Swap(r)}
      <4>1. live \in Configs /\ req[r].new \in Configs /\ req[r].kind \in {"config", "settings"}
        BY DEF TypeOK, RequestType
      <4> QED BY <2>2, <2>6, <4>1 DEF Write, Written, Swap, Configs
    <3>4. Swap(r)' = Swap(r)
      BY <2>6, Advanced DEF Write, Swap
    <3> QED BY <2>1, <2>2, <2>6, <3>1, <3>2, <3>3, <3>4, Advanced DEF Write
  <2>7. CASE End(r) \/ Answered(r)
    BY <2>1, <2>7, Idled DEF End, Answered
  <2> QED BY <1>5, <2>3, <2>4, <2>5, <2>6, <2>7 DEF Step
<1> QED BY <1>1, <1>2, <1>3, <1>4, <1>5 DEF Next

-----------------------------------------------------------------------------
(* What is promised, and what the plugins hold                             *)

LEMMA DownKept == TypeOK /\ DownInv /\ [Next]_vars => DownInv'
<1> SUFFICES ASSUME TypeOK, DownInv, [Next]_vars PROVE DownInv'
  OBVIOUS
<1>1. CASE Start \/ RemoveFile \/ UNCHANGED vars
  BY <1>1 DEF Start, RemoveFile, vars, DownInv, Busy
<1>2. CASE Crash
  BY <1>2 DEF Crash, DownInv, Busy, Idle
<1>3. ASSUME NEW r \in Requests, NEW post \in Posts,
             BeginConfig(r, post) \/ RejectConfig(r, post) \/ BeginSettings(r, post)
      PROVE  DownInv'
  BY <1>3 DEF BeginConfig, RejectConfig, BeginWith, BeginSettings, DownInv
<1>4. ASSUME NEW r \in Requests, Step(r)
      PROVE  DownInv'
  <2>1. r \in Busy /\ up' = up
    BY <1>4 DEF Busy, Step, ApplySettings, EndApply, PluginRefuses, Create, CreateFails, Write,
                WriteFails, End, Answered
  <2> QED BY <2>1 DEF DownInv
<1> QED BY <1>1, <1>2, <1>3, <1>4 DEF Next

LEMMA PromiseKept == TypeOK /\ AloneInv /\ PromiseInv /\ [Next]_vars => PromiseInv'
<1> SUFFICES ASSUME TypeOK, AloneInv, PromiseInv, [Next]_vars PROVE PromiseInv'
  OBVIOUS
<1>1. CASE UNCHANGED vars
  BY <1>1 DEF vars, PromiseInv, AckedSettingsSurvive, Busy, Loaded, Migrate
<1>2. CASE Start \/ RemoveFile \/ Crash
  <2> SUFFICES ASSUME NEW cfg \in promise'
               PROVE  /\ file'.state = "whole" /\ Loaded(file') = Refilled(cfg)
                      /\ up' => Refilled(live') = Refilled(cfg)
                      /\ Busy' = {}
    BY DEF PromiseInv, AckedSettingsSurvive, Loaded, Migrate
  <2>1. cfg \in promise /\ cfg \in Configs
    BY <1>2 DEF Start, RemoveFile, Crash, TypeOK
  <2>2. file.state = "whole" /\ Loaded(file) = Refilled(cfg) /\ Busy = {}
    BY <2>1 DEF PromiseInv, AckedSettingsSurvive
  <2>3. CASE Start
    <3>1. live' = Loaded(file) /\ file' = file /\ Busy' = {}
      BY <2>2, <2>3 DEF Start, Load, Busy
    <3> QED BY <2>1, <2>2, <3>1, RefilledTwice
  <2>4. CASE RemoveFile
    BY <2>2, <2>4 DEF RemoveFile
  <2>5. CASE Crash
    BY <2>2, <2>5 DEF Crash, Busy, Idle
  <2> QED BY <1>2, <2>3, <2>4, <2>5
<1>3. ASSUME NEW r \in Requests, NEW post \in Posts,
             BeginConfig(r, post) \/ RejectConfig(r, post) \/ BeginSettings(r, post)
      PROVE  PromiseInv'
  BY <1>3 DEF BeginConfig, RejectConfig, BeginWith, BeginSettings, PromiseInv,
              AckedSettingsSurvive
<1>4. ASSUME NEW r \in Requests, Step(r)
      PROVE  PromiseInv'
  <2>1. promise = {}
    BY <1>4 DEF PromiseInv, Busy, Step, ApplySettings, EndApply, PluginRefuses, Create,
                CreateFails, Write, WriteFails, End, Answered
  <2>2. CASE End(r) /\ req[r].alone
    <3>1. Busy = {r} /\ file = File("whole", Swap(r), Unset)
      BY <2>2 DEF AloneInv, End
    <3>2. /\ live' = Swap(r) /\ promise' = {live'} /\ file' = file /\ live' \in Configs
      BY <2>2 DEF End, Swap, TypeOK, RequestType
    <3>3. Busy' = {}
      BY <2>2, <3>1, Idled DEF End, Busy
    <3>4. file'.state = "whole" /\ Loaded(file') = Refilled(live')
      BY <3>1, <3>2, LoadedBack DEF File
    <3> QED BY <3>2, <3>3, <3>4 DEF PromiseInv, AckedSettingsSurvive, Loaded, Migrate
  <2>3. CASE ~(End(r) /\ req[r].alone)
    <3>1. promise' = {}
      BY <1>4, <2>1, <2>3 DEF Step, ApplySettings, EndApply, PluginRefuses, Create, CreateFails,
         Write, WriteFails, End, Answered
    <3> QED BY <3>1 DEF PromiseInv, AckedSettingsSurvive
  <2> QED BY <2>2, <2>3
<1> QED BY <1>1, <1>2, <1>3, <1>4 DEF Next

LEMMA HeldKept == TypeOK /\ DownInv /\ HeldInv /\ [Next]_vars => HeldInv'
<1> SUFFICES ASSUME TypeOK, DownInv, HeldInv, [Next]_vars, up', ~mixed'
             PROVE  HeldInv'
  BY DEF HeldInv
<1>0. \A p \in Plugins : Declares[p] \subseteq Keys
  BY SettingsAssumption
<1>1. CASE UNCHANGED vars
  BY <1>1 DEF vars, HeldInv, Busy, Pending
<1>2. CASE Start
  <2>1. Busy = {} /\ req' = req
    BY <1>2 DEF Start, DownInv
  <2>2. \A p \in Plugins : guest'[p] = LookupAll(p, live')
    BY <1>2 DEF Start
  <2>3. Busy' = {} /\ \A r \in Requests : req'[r].pc # "apply"
    BY <2>1 DEF Busy
  <2>4. \A p \in Plugins : \A k \in Declares[p] : guest'[p][k] = live'.keys[k]
    BY <2>2 DEF LookupAll
  <2> QED BY <2>3, <2>4 DEF HeldInv
<1>3. CASE RemoveFile \/ Crash
  BY <1>3 DEF RemoveFile, Crash
<1>4. ASSUME NEW r \in Requests, NEW post \in Posts,
             BeginConfig(r, post) \/ RejectConfig(r, post)
      PROVE  HeldInv'
  <2>1. PICK request \in RequestType :
          /\ Begin(r, request)
          /\ request.pc = "failed" \/ (request.pc = "save" /\ request.new.keys = live.keys)
    <3>1. CASE BeginConfig(r, post)
      <4>1. Updated(post).keys = live.keys
        BY <3>1 DEF BeginConfig, BeginWith
      <4> QED BY <3>1, <4>1, BeginsType DEF BeginConfig, BeginWith, Idle
    <3>2. CASE RejectConfig(r, post)
      BY <3>2, BeginsType DEF RejectConfig, BeginWith, Idle
    <3> QED BY <1>4, <3>1, <3>2
  <2>2. live'.keys = live.keys
    BY <1>4, Decoded DEF BeginConfig, RejectConfig
  <2>3. ~mixed /\ Busy = {} /\ up /\ guest' = guest
    BY <1>4 DEF BeginConfig, RejectConfig, BeginWith
  <2>4. /\ \/ req'[r].pc = "failed"
           \/ req'[r].pc = "save" /\ req'[r].new.keys = live.keys
        /\ \A q \in Requests \ {r} : req'[q].pc = req[q].pc
    BY <2>1, Begun
  <2>5. Busy' = {r} /\ \A q \in Requests : req'[q].pc # "apply"
    BY <2>3, <2>4 DEF Busy
  <2>6. \A p \in Plugins : \A k \in Declares[p] : guest[p][k] = live.keys[k]
    BY <2>3 DEF HeldInv, Busy
  <2> QED BY <2>2, <2>3, <2>4, <2>5, <2>6 DEF HeldInv
<1>5. ASSUME NEW r \in Requests, NEW post \in Posts, BeginSettings(r, post)
      PROVE  HeldInv'
  <2> DEFINE request == [Idle EXCEPT !.pc = "apply", !.kind = "settings", !.post = post]
  <2>1. request \in RequestType /\ Begin(r, request)
    BY <1>5, BeginsType DEF BeginSettings
  <2>2. request.pc = "apply" /\ request.kind = "settings" /\ request.post = post
        /\ request.at = 1
    BY DEF Idle
  <2>3. ~mixed /\ Busy = {} /\ up /\ live' = Posted(live, post) /\ guest' = guest
    BY <1>5 DEF BeginSettings
  <2> HIDE DEF request
  <2>4. /\ req'[r].pc = "apply" /\ req'[r].kind = "settings" /\ req'[r].post = post
        /\ req'[r].at = 1
        /\ \A q \in Requests \ {r} : req'[q].pc = req[q].pc
    BY <2>1, <2>2, Begun
  <2>5. Busy' = {r}
    BY <2>3, <2>4 DEF Busy
  <2>6. \A p \in Plugins : \A k \in Declares[p] : guest[p][k] = live.keys[k]
    BY <2>3 DEF HeldInv, Busy
  <2>7. \A k \in Keys : live'.keys[k] =
          IF k \in DOMAIN post.keys THEN post.keys[k] ELSE live.keys[k]
    BY <2>3, PostedType DEF TypeOK
  <2>8. \A p \in Plugins : Pending(p, r)'
    BY <2>4 DEF Pending, Plugins
  <2>9. \A q \in Requests : req'[q].pc = "apply" => q = r
    BY <2>5 DEF Busy
  <2> QED BY <1>0, <2>3, <2>4, <2>5, <2>6, <2>7, <2>8, <2>9 DEF HeldInv
<1>6. ASSUME NEW r \in Requests, Step(r)
      PROVE  HeldInv'
  <2>a. r \in Busy /\ up /\ ~mixed
    <3>1. r \in Busy
      BY <1>6 DEF Step, ApplySettings, EndApply, PluginRefuses, Create, CreateFails, Write,
                  WriteFails, End, Answered, Busy
    <3>2. up
      BY <3>1 DEF DownInv
    <3>3. CASE PluginRefuses(r)
      BY <3>3 DEF PluginRefuses
    <3>4. CASE ~PluginRefuses(r)
      BY <1>6, <3>1, <3>2, <3>4 DEF Step, ApplySettings, EndApply, Create, CreateFails, Write,
                  WriteFails, End, Answered
    <3> QED BY <3>3, <3>4
  <2>b. \A q \in Requests \ {r} : req'[q] = req[q]
    BY <1>6, Applied, AppliedAll, Failed, Advanced, Idled
       DEF Step, PluginRefuses, Create, CreateFails, Write, WriteFails, End, Answered
  <2>0. /\ r \in Busy /\ up /\ ~mixed
        /\ \A q \in Requests \ {r} : req'[q] = req[q]
    BY <2>a, <2>b
  <2>1. Busy = {r} /\ \A q \in Requests \ {r} : req'[q].pc = "idle" /\ req[q].pc = "idle"
    BY <2>0 DEF HeldInv, Busy
  <2>2. Busy' \subseteq {r}
    BY <2>1 DEF Busy
  <2>3. CASE ApplySettings(r)
    <3> DEFINE p0 == Order[req[r].at]
    <3>1. p0 \in Plugins
      BY <2>3, DataTypes DEF ApplySettings, Plugins, TypeOK, RequestType
    <3>2. /\ req'[r].at = req[r].at + 1 /\ req'[r].pc = "apply" /\ req[r].pc = "apply"
          /\ req'[r].kind = req[r].kind /\ req'[r].post = req[r].post /\ req'[r].new = req[r].new
          /\ guest' = Given(p0, req[r].post) /\ live' = live
      BY <2>3, Applied DEF ApplySettings
    <3>3. req[r].post \in Posts \cup {Idle.post}
      BY DEF TypeOK, RequestType
    <3> HIDE DEF p0
    <3>4. /\ \A q \in Plugins \ {p0} : guest'[q] = guest[q]
          /\ \A k \in Declares[p0] :
               guest'[p0][k] = IF k \in DOMAIN req[r].post.keys THEN req[r].post.keys[k]
                               ELSE guest[p0][k]
      BY <3>1, <3>2, <3>3, GivenType
    <3>5. \A p \in Plugins \ {p0} : Pending(p, r) => Pending(p, r)'
      BY <3>2, DataTypes DEF Pending, TypeOK, RequestType, p0
    <3>6. \A k \in Keys : k \in DOMAIN req[r].post.keys => live.keys[k] = req[r].post.keys[k]
      BY <2>0, <3>2 DEF HeldInv
    <3>7. ASSUME NEW p \in Plugins, NEW k \in Declares[p]
          PROVE  \/ guest'[p][k] = live'.keys[k]
                 \/ /\ req'[r].pc = "apply" /\ Pending(p, r)'
                    /\ k \in DOMAIN req'[r].post.keys
      <4>1. guest[p][k] = live.keys[k] \/ (Pending(p, r) /\ k \in DOMAIN req[r].post.keys)
        BY <2>0, <2>1, <3>7 DEF HeldInv
      <4>2. k \in Keys
        BY <1>0, <3>7
      <4> QED BY <3>2, <3>4, <3>5, <3>6, <3>7, <4>1, <4>2
    <3>8. \A k \in Keys : k \in DOMAIN req'[r].post.keys => live'.keys[k] = req'[r].post.keys[k]
      BY <3>2, <3>6
    <3>9. req'[r].kind = "config" => req'[r].new.keys = live'.keys
      BY <2>0, <3>2 DEF HeldInv
    <3> QED BY <2>1, <2>2, <3>7, <3>8, <3>9 DEF HeldInv
  <2>4. CASE ~ApplySettings(r) /\ ~PluginRefuses(r)
    <3>1. req'[r].pc # "apply" /\ guest' = guest /\ (req[r].pc = "apply" => EndApply(r))
      BY <1>6, <2>4, AppliedAll, Failed, Advanced, Idled
         DEF Step, EndApply, Create, CreateFails, Write, WriteFails, End, Answered
    <3>2. \A p \in Plugins : \A k \in Declares[p] : guest[p][k] = live.keys[k]
      <4>1. CASE EndApply(r)
        <5>1. \A p \in Plugins : ~Pending(p, r)
          BY <4>1, DataTypes DEF EndApply, Pending, TypeOK, RequestType
        <5> QED BY <2>0, <2>1, <5>1 DEF HeldInv
      <4>2. CASE ~EndApply(r)
        BY <2>0, <2>1, <3>1, <4>2 DEF HeldInv
      <4> QED BY <4>1, <4>2
    <3>3. live'.keys = live.keys
      BY <1>6, <2>0, <2>4 DEF HeldInv, Step, EndApply, Create, CreateFails, Write, WriteFails,
         End, Swap, Answered, TypeOK, RequestType
    <3>4. r \in Busy' /\ req'[r].kind = "config" =>
            req'[r].new.keys = live'.keys \/ req'[r].pc = "failed"
      <4>1. CASE EndApply(r)
        BY <4>1, AppliedAll DEF EndApply
      <4>2. CASE Create(r) \/ Write(r)
        BY <2>0, <3>3, <4>2, Advanced DEF Create, Write, HeldInv
      <4>3. CASE CreateFails(r) \/ WriteFails(r)
        BY <4>3, Failed DEF CreateFails, WriteFails
      <4>4. CASE End(r) \/ Answered(r)
        BY <4>4, Idled DEF End, Answered, Busy
      <4> QED BY <1>6, <2>4, <4>1, <4>2, <4>3, <4>4 DEF Step
    <3> QED BY <2>1, <2>2, <3>1, <3>2, <3>3, <3>4 DEF HeldInv
  <2> QED BY <2>3, <2>4 DEF PluginRefuses
<1> QED BY <1>1, <1>2, <1>3, <1>4, <1>5, <1>6 DEF Next

-----------------------------------------------------------------------------
(* The theorems                                                            *)

LEMMA SettingsInitially == Init => SettingsInv
<1> SUFFICES ASSUME Init PROVE SettingsInv
  OBVIOUS
<1>1. TypeOK
  <2>1. file \in [state : {"absent", "empty", "torn", "whole"}, cfg : Configs, legacy : Values]
    <3>1. CASE file = NoFile("absent")
      BY <3>1, DataTypes, SettingsAssumption DEF NoFile, File
    <3>2. ASSUME NEW list \in Lists, NEW v \in Values,
                 file = File("whole", [Default EXCEPT !.disabled = Sanitized(list)], v)
          PROVE  file \in [state : {"absent", "empty", "torn", "whole"}, cfg : Configs,
                           legacy : Values]
      <4>1. Sanitized(list) \in Lists
        BY SettingsAssumption
      <4>2. [Default EXCEPT !.disabled = Sanitized(list)] \in Configs
        BY <4>1, DataTypes DEF Configs
      <4> QED BY <3>2, <4>2 DEF File
    <3>3. \/ file = NoFile("absent")
          \/ \E list \in Lists, v \in Values :
               file = File("whole", [Default EXCEPT !.disabled = Sanitized(list)], v)
      BY DEF Init
    <3> QED BY <3>1, <3>2, <3>3
  <2>2. GuestType
    BY SettingsAssumption DEF Init, NothingGiven, GuestType
  <2>3. req \in [Requests -> RequestType] /\ live \in Configs
    BY DataTypes DEF Init
  <2> QED BY <2>1, <2>2, <2>3 DEF Init, TypeOK, GuestType
<1>2. Busy = {} /\ \A r \in Requests : ~req[r].alone
  BY DEF Init, Busy, Idle
<1> QED BY <1>1, <1>2 DEF Init, SettingsInv, AloneInv, PromiseInv, AckedSettingsSurvive, DownInv,
                          HeldInv

LEMMA SettingsKept == Spec => []SettingsInv
<1>1. SettingsInv /\ [Next]_vars => SettingsInv'
  BY TypesKept, AloneKept, DownKept, PromiseKept, HeldKept DEF SettingsInv
<1> QED BY <1>1, SettingsInitially, PTL DEF Spec

\* handlers.go:24-56, 251-350, config.go:163-258: what a request that ran
\* alone answered with success survives every crash and restart, with any
\* number of requests, keys and plugins.
THEOREM AcknowledgedIsKept == Spec => []AckedSettingsSurvive
<1>1. SettingsInv => AckedSettingsSurvive
  BY DEF SettingsInv, PromiseInv
<1> QED BY <1>1, SettingsKept, PTL

\* handlers.go:30-51: a POST of /api/config that runs alone and fails, to
\* decode or to save, leaves the Config alone but for the list of disabled
\* plugins, which decoding may write over (Settings_alias shows that it does).
THEOREM FailureIsHarmless == Spec => []FailedPostSparesTheRest
<1>1. SettingsInv => FailedPostSparesTheRest
  BY DEF SettingsInv, AloneInv, FailedPostSparesTheRest, Spared
<1> QED BY <1>1, SettingsKept, PTL

\* handlers.go:300-345, host.go: between requests each plugin has the values
\* of the Config, failed saves and restarts included.
THEOREM PluginsAgree == Spec => []PluginsHoldTheirSettings
<1>1. SettingsInv => PluginsHoldTheirSettings
  <2> SUFFICES ASSUME SettingsInv, up, ~mixed, \A r \in Requests : req[r].pc # "apply",
                      NEW p \in Plugins
               PROVE  guest[p] = LookupAll(p, live)
    BY DEF PluginsHoldTheirSettings
  <2>1. \A k \in Declares[p] : guest[p][k] = live.keys[k]
    BY DEF SettingsInv, HeldInv
  <2>2. guest[p] \in [Declares[p] -> Values]
    BY DEF SettingsInv, TypeOK
  <2> QED BY <2>1, <2>2 DEF LookupAll
<1> QED BY <1>1, SettingsKept, PTL
=============================================================================
