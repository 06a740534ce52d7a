---------------------------- MODULE Acquisition ----------------------------
(***************************************************************************)
(* How the objects that own hardware, memory or libraries come up and go:  *)
(* an Init is a sequence of calls, any of which may fail half-way, with    *)
(* the clean-up its error path writes out; a destructor releases what the  *)
(* object's members record.  Each class is a table of its calls, and one   *)
(* machine runs them, so that the properties are stated once for all.      *)
(***************************************************************************)
EXTENDS Integers, Sequences, FiniteSets

CONSTANTS Subjects,   \* the classes looked at
          N,          \* components of a chain, channels, planes, tensors, blocks
          MaxInits    \* bound: calls of Init on one object

ASSUME AcquisitionAssumption ==
  /\ Subjects \subseteq {"engine", "ivps", "vdec", "venc", "resource", "bus",
                         "rules", "clone", "jpeg"}
  /\ N \in Nat \ {0} /\ MaxInits \in Nat \ {0}

(* A resource: <<kind, index>>, such as the i-th library of a chain.       *)
One(kind)    == <<kind, 1>>
All(kind)    == {<<kind, i>> : i \in 1..N}
Upto(kind, n) == [i \in 1..n |-> <<kind, i>>]

(* A call of an Init:                                                      *)
(*   wants     what must be recorded, or the call fails                    *)
(*   once      recorded already by an earlier Init: the call is skipped    *)
(*   before    recorded by the members before the call                     *)
(*   begins    taken by the call even if it fails                          *)
(*   gets      taken if it succeeds                                        *)
(*   strays    taken then too, but no member and no clean-up knows of it   *)
(*   returns   strays it gives back                                        *)
(*   notes     recorded by the members after it                            *)
(*   fails     whether it can fail                                         *)
(*   undo      what its error path releases, in order                      *)
(*   forgets   records that path clears besides                            *)
(*   destroys  whether that path then runs the object's clean-up           *)
(*   goto      the call it goes on with; 0: Init returns the error         *)
Plain == [wants |-> {}, once |-> {}, before |-> {}, begins |-> {}, gets |-> {},
          strays |-> {}, returns |-> {}, notes |-> {}, fails |-> TRUE, undo |-> <<>>,
          forgets |-> {}, destroys |-> FALSE, goto |-> 0]
Taking(r) == [Plain EXCEPT !.gets = {r}, !.notes = {r}]
Making(r) == [Taking(r) EXCEPT !.fails = FALSE]
Destroying(c) == [c EXCEPT !.destroys = TRUE]

(* What part(i) says of each i, one after the other, w entries each.       *)
Repeated(w, part(_)) ==
  [k \in 1..(w * N) |-> part((k - 1) \div w + 1)[((k - 1) % w) + 1]]

-----------------------------------------------------------------------------
(* Mutant: the buffers freed by the error path stay recorded in io_data_.  *)
IoCallKeepsRecord(kind, i) ==
  [Destroying(Plain) EXCEPT
     !.gets = {<<kind, i>>}, !.before = All(kind),
     !.undo = (IF kind = "out" THEN Upto("in", N) ELSE <<>>) \o Upto(kind, i - 1)]
(* PrepareIo: nInputSize counts the buffers before they are allocated, so  *)
(* the error path frees those it has and resets io_data_.                  *)
IoCall(kind, i) ==
  [Destroying(Plain) EXCEPT
     !.gets = {<<kind, i>>}, !.before = All(kind),
     !.undo = (IF kind = "out" THEN Upto("in", N) ELSE <<>>) \o Upto(kind, i - 1),
     !.forgets = All("in") \cup All("out")]

(* Engine::Init: runtime, model file, handle, context, IO info, buffers.   *)
EngineInit ==
  <<Taking(One("npu")), Destroying(Plain), Destroying(Taking(One("handle"))),
    Destroying(Plain), Destroying(Plain)>>
  \o [i \in 1..N |-> IoCall("in", i)] \o [i \in 1..N |-> IoCall("out", i)]
EngineDestroy == Upto("in", N) \o Upto("out", N) \o <<One("handle"), One("npu")>>

(* IvpsHelper: the constructor's id, CreatePool, CreateGrp.  CreatePool    *)
(* takes the blocks one by one into a local and gives them back at the end;*)
(* when it cannot have one it destroys the pool and leaves those it has.   *)
GetBlock(i) == [Plain EXCEPT !.strays = {<<"blk", i>>}, !.once = {One("pool")},
                             !.undo = <<One("pool")>>]
IvpsPool ==
  <<[Plain EXCEPT !.gets = {One("pool")}, !.once = {One("pool")}]>>
  \o [i \in 1..N |-> GetBlock(i)]
  \o <<[Plain EXCEPT !.returns = All("blk"), !.notes = {One("pool")},
                     !.once = {One("pool")}, !.fails = FALSE]>>
(* Mutant: rollback leaves out the channel enabled last.                   *)
RollbackShort(n) == Upto("chn", IF n = 0 THEN 0 ELSE n - 1) \o <<One("grp")>>
Rollback(n) == Upto("chn", n) \o <<One("grp")>>
IvpsChn(i) == <<[Plain EXCEPT !.undo = Rollback(i - 1)],
                [Plain EXCEPT !.gets = {<<"chn", i>>}, !.undo = Rollback(i - 1)]>>
IvpsGrp ==
  <<[Plain EXCEPT !.wants = {One("id")}, !.gets = {One("grp")}],
    [Plain EXCEPT !.undo = <<One("grp")>>]>>
  \o Repeated(2, IvpsChn)
  \o <<[Plain EXCEPT !.gets = {One("run")}, !.undo = Rollback(N),
                     !.notes = {One("grp"), One("run")} \cup All("chn")]>>
IvpsInit == <<[Taking(One("id")) EXCEPT !.goto = 2]>> \o IvpsPool \o IvpsGrp
IvpsDestroy == <<One("run")>> \o Rollback(N) \o <<One("pool"), One("id")>>

(* VdecHelper: id, stream buffer, group, the channel's attributes, the     *)
(* channel, which nothing disables, the group's parameters and its display *)
(* mode.  Destory asks for the group's destruction whenever it has an id.  *)
VdecInit ==
  <<[Taking(One("id")) EXCEPT !.notes = {One("id"), One("grp")}, !.goto = 2],
    [Taking(One("mem")) EXCEPT !.wants = {One("id")}],
    [Plain EXCEPT !.gets = {One("grp")}],
    Plain, [Plain EXCEPT !.strays = {One("vchn")}], Plain, Plain>>
VdecDestroy == <<One("grp"), One("mem"), One("id")>>

(* VencHelper: id and channel.                                             *)
VencInit ==
  <<[Taking(One("id")) EXCEPT !.notes = {One("id"), One("chn")}, !.goto = 2],
    [Plain EXCEPT !.wants = {One("id")}, !.gets = {One("chn")}]>>
VencDestroy == <<One("chn"), One("id")>>

(* Resource: SYS, VDEC, VENC; Release does not ask which of them are up.   *)
ResourceInit ==
  <<[Plain EXCEPT !.gets = {One("sys")},
                  !.before = {One("sys"), One("vdec"), One("venc")}],
    [Plain EXCEPT !.gets = {One("vdec")}, !.undo = <<One("sys")>>],
    [Plain EXCEPT !.gets = {One("venc")}, !.undo = <<One("vdec"), One("sys")>>]>>
ResourceRelease == <<One("venc"), One("vdec"), One("sys")>>

-----------------------------------------------------------------------------
(* A component of a library: dlopen, dlsym, create, versions, Init.        *)
Part(so, obj, run, i) ==
  <<[Plain EXCEPT !.gets = {<<so, i>>}],
    [Plain EXCEPT !.undo = <<<<so, i>>>>],
    [Plain EXCEPT !.gets = {<<obj, i>>}, !.undo = <<<<so, i>>>>],
    [Plain EXCEPT !.undo = <<<<obj, i>>, <<so, i>>>>],
    [Plain EXCEPT !.begins = {<<run, i>>},
                  !.notes = {<<so, i>>, <<obj, i>>, <<run, i>>},
                  !.undo = <<<<run, i>>, <<obj, i>>, <<so, i>>>>]>>
Unpart(so, obj, run, i) == <<<<run, i>>, <<obj, i>>, <<so, i>>>>

(* PostProcessorChain::Load and ::Unload, last loaded first.               *)
LoadPart(i)   == Part("lib", "processor", "inited", i)
UnloadPart(i) == Unpart("lib", "processor", "inited", N + 1 - i)
ChainLoad    == Repeated(5, LoadPart)
ChainUnload  == Repeated(3, UnloadPart)

(* PluginManager::Load and ::Unload.                                       *)
PluginLoad   == Part("so", "plugin", "active", 1)
PluginUnload == Unpart("so", "plugin", "active", 1)

(* HostServices::Init: ArcFace, Qdrant client and its health, FaceServer   *)
(* client, pool, the two IVPS set-ups; Shutdown.                           *)
HostInit ==
  <<Taking(One("arcface")), Making(One("qdrant")), Plain, Making(One("face_server")),
    Making(One("push_pool")), Plain, Plain>>
(* Mutant: the clients go before the pool whose jobs use them.             *)
HostShutdownClientsFirst ==
  <<One("face_server"), One("qdrant"), One("push_pool"), One("arcface")>>
HostShutdown ==
  <<One("push_pool"), One("face_server"), One("qdrant"), One("arcface")>>

(* BusProcess: HostServices' IVPS helpers, then Init with the lookup of    *)
(* EncProcess, the scene's configuration and SceneRuntime::Init; every     *)
(* failure after the lookup runs Shutdown, the runtime's before the host's.*)
BusInit ==
  <<Making(<<"ivps", 1>>), Making(<<"ivps", 2>>), Plain>>
  \o LET inits == HostInit \o <<Plain>> \o ChainLoad \o PluginLoad
     IN [i \in 1..Len(inits) |-> Destroying(inits[i])]
BusShutdown == PluginUnload \o ChainUnload \o HostShutdown
BusMembers  == <<<<"ivps", 1>>, <<"ivps", 2>>>>

(* RuleEngine::Load skips a rule that fails, wherever it does; Unload.     *)
RuleLoad(i) ==
  LET part == <<Plain>> \o Part("so", "rule", "inited", i)
  IN [j \in 1..6 |-> [part[j] EXCEPT !.goto = 6 * i + 1]]
RuleUnload(i) == Unpart("so", "rule", "inited", i)
RulesLoad     == Repeated(6, RuleLoad)
RulesUnload   == Repeated(3, RuleUnload)

(* Clone: plane after plane; a failure leaves those it has to ~FrameData.  *)
CloneInit == [i \in 1..N |-> Taking(<<"plane", i>>)]
FrameDestroy == Upto("plane", N)

(* JpegEncode: the output buffer goes at EXIT, however it came there.      *)
JpegEncode == <<Taking(One("buffer")), Destroying(Plain)>>
JpegExit   == <<One("buffer")>>

-----------------------------------------------------------------------------
Calls == [engine |-> EngineInit, ivps |-> IvpsInit, vdec |-> VdecInit,
          venc |-> VencInit, resource |-> ResourceInit, bus |-> BusInit,
          rules |-> RulesLoad, clone |-> CloneInit, jpeg |-> JpegEncode]

(* The clean-up an Init may run itself, and what only the destructor does. *)
CleanUp == [engine |-> EngineDestroy, ivps |-> IvpsDestroy, vdec |-> VdecDestroy,
            venc |-> VencDestroy, resource |-> ResourceRelease, bus |-> BusShutdown,
            rules |-> RulesUnload, clone |-> FrameDestroy, jpeg |-> JpegExit]
Members(s) == IF s = "bus" THEN BusMembers ELSE <<>>

(* Released without a record of them: the SDK answers with an error, which *)
(* is logged, if there is nothing to release.                              *)
Blind == {One("sys"), One("vdec"), One("venc"), One("grp"), One("chn")}
Tolerated(s) == IF s \in {"resource", "vdec", "venc"} THEN Blind ELSE {}

(* Init of these may be called again after it failed, from this call on.   *)
RetryAt == [engine |-> 1, ivps |-> 2]

VARIABLES
  subject,   \* the class of the object
  phase,     \* init, undo, clean, ready, failed, destroy, gone
  at,        \* the call Init has come to
  step,      \* the entry a list of releases has come to
  inits,     \* calls of Init so far
  held,      \* the resources taken and not released
  noted,     \* those the object's members record
  stray      \* <<resource, Init>>: taken besides, and nobody's to release

objectVars == <<subject, phase, at, step, inits, held, noted, stray>>

calls == Calls[subject]
Resources(s) == UNION {Calls[s][i].begins \cup Calls[s][i].gets : i \in 1..Len(Calls[s])}
Strays == All("blk") \cup {One("pool"), One("vchn")}

ObjectTypeOK ==
  /\ subject \in Subjects
  /\ phase \in {"init", "undo", "clean", "ready", "failed", "destroy", "gone"}
  /\ at \in 1..(Len(calls) + 1) /\ (phase = "undo" => at <= Len(calls))
  /\ step \in Nat \ {0}
  /\ inits \in 1..MaxInits
  /\ held \subseteq Resources(subject) /\ noted \subseteq Resources(subject)
  /\ stray \subseteq Strays \X (1..inits)

ObjectInit ==
  /\ subject \in Subjects
  /\ phase = "init" /\ at = 1 /\ step = 1 /\ inits = 1
  /\ held = {} /\ noted = {} /\ stray = {}

(* Init goes on with call i; past the last it is over.  A RuleEngine none  *)
(* of whose rules could be loaded has failed.                              *)
Proceed(i, notes) ==
  /\ at' = i
  /\ phase' = IF i <= Len(calls) THEN "init"
              ELSE IF subject = "rules" /\ notes = {} THEN "failed" ELSE "ready"

Skip ==
  /\ phase = "init" /\ calls[at].once # {} /\ calls[at].once \subseteq noted
  /\ Proceed(at + 1, noted)
  /\ UNCHANGED <<subject, step, inits, held, noted, stray>>

Due == phase = "init" /\ (calls[at].once = {} \/ ~(calls[at].once \subseteq noted))

Succeed ==
  /\ Due /\ calls[at].wants \subseteq noted
  /\ held' = held \cup calls[at].begins \cup calls[at].gets
  /\ noted' = noted \cup calls[at].before \cup calls[at].notes
  /\ stray' = (stray \cup calls[at].strays \X {inits}) \ (calls[at].returns \X {inits})
  /\ Proceed(at + 1, noted')
  /\ UNCHANGED <<subject, step, inits>>

Fail ==
  /\ Due /\ calls[at].fails
  /\ held' = held \cup calls[at].begins
  /\ noted' = (noted \cup calls[at].before) \ calls[at].forgets
  /\ phase' = "undo" /\ step' = 1
  /\ UNCHANGED <<subject, at, inits, stray>>

(* The list of releases under way.  An error path knows what it has to     *)
(* release; a clean-up asks the members, entry by entry.                   *)
Releases == CASE phase = "undo"    -> calls[at].undo
              [] phase = "clean"   -> CleanUp[subject]
              [] phase = "destroy" -> CleanUp[subject] \o Members(subject)
              [] OTHER             -> <<>>
Released == IF step <= Len(Releases) /\ (phase = "undo" \/ Releases[step] \in noted)
            THEN {Releases[step]} ELSE {}

(* What this Init has astray.                                              *)
Astray == {r \in Strays : <<r, inits>> \in stray}

(* The SDK may refuse to destroy a pool blocks of which are in use; that is*)
(* logged, and pool_id_ cleared all the same.                              *)
Refusable == Released \cap (IF Astray \cap All("blk") = {} THEN {} ELSE {One("pool")})

Release ==
  /\ step <= Len(Releases)
  /\ held' = held \ Released
  /\ stray' \in {stray, stray \cup Refusable \X {inits}}
  /\ noted' = IF phase = "undo" THEN noted ELSE noted \ (Released \ Tolerated(subject))
  /\ step' = step + 1
  /\ UNCHANGED <<subject, phase, at, inits>>

(* After the error path: the clean-up, the next call, or the error.        *)
Undone ==
  /\ phase = "undo" /\ step > Len(Releases)
  /\ \/ calls[at].destroys /\ phase' = "clean" /\ at' = at
     \/ ~calls[at].destroys /\ calls[at].goto = 0 /\ phase' = "failed" /\ at' = at
     \/ ~calls[at].destroys /\ calls[at].goto # 0 /\ Proceed(calls[at].goto, noted)
  /\ step' = 1
  /\ UNCHANGED <<subject, inits, held, noted, stray>>

Cleaned ==
  /\ phase \in {"clean", "destroy"} /\ step > Len(Releases)
  /\ phase' = IF phase = "clean" THEN "failed" ELSE "gone"
  /\ UNCHANGED <<subject, at, step, inits, held, noted, stray>>

(* Init again, after a failure.                                            *)
Retry ==
  /\ phase = "failed" /\ subject \in DOMAIN RetryAt /\ inits < MaxInits
  /\ inits' = inits + 1
  /\ phase' = "init" /\ at' = RetryAt[subject]
  /\ UNCHANGED <<subject, step, held, noted, stray>>

(* The destructor.                                                         *)
Destruct ==
  /\ phase \in {"ready", "failed"}
  /\ phase' = "destroy" /\ step' = 1
  /\ UNCHANGED <<subject, at, inits, held, noted, stray>>

Gone == phase = "gone" /\ UNCHANGED objectVars

ObjectNext == \/ Skip \/ Succeed \/ Fail \/ Release \/ Undone \/ Cleaned
              \/ Retry \/ Destruct \/ Gone

ObjectSpec == ObjectInit /\ [][ObjectNext]_objectVars
-----------------------------------------------------------------------------
(* What must be there while r is: the code of an object, the runtime of a  *)
(* handle, the services a plugin or a pool's job uses.                     *)
Needs(r) ==
  LET k == r[1]  i == r[2] IN
  CASE k \in {"processor"}   -> {<<"lib", i>>}
    [] k = "inited"          -> {<<"processor", i>>, <<"rule", i>>}
    [] k \in {"plugin", "rule"} -> {<<"so", i>>}
    [] k = "active"          -> {<<"plugin", i>>, One("push_pool"), One("qdrant"),
                                 One("face_server"), One("arcface")} \cup All("ivps")
    [] k = "push_pool"       -> {One("qdrant"), One("face_server"), One("arcface")}
                                \cup All("ivps")
    [] k = "handle"          -> {One("npu")}
    [] k = "run"             -> {One("grp")} \cup All("chn")
    [] k = "chn"             -> {One("grp"), One("id")}
    [] k = "grp"             -> {One("id"), One("pool"), One("mem")}
    [] k = "blk"             -> {One("pool")}
    [] k = "vchn"            -> {One("grp")}
    [] k \in {"vdec", "venc"} -> {One("sys")}
    [] OTHER                 -> {}

(* Nothing is released that is not held: no double free of a buffer, no    *)
(* second dlclose, no id given back twice, whichever call failed before.   *)
ReleasesHeld ==
  /\ ObjectTypeOK
  /\ Released \subseteq held \cup Tolerated(subject)

(* Nothing is released while something that is still there needs it, with  *)
(* two exceptions: the pool of a CreatePool that fails goes before the     *)
(* blocks it has, and a VDEC group before its channel.  So no destructor   *)
(* ever destroys a pool whose blocks are out.                              *)
DependentsFirst ==
  \A r \in Released :
    /\ \A d \in held \ Released : r \notin Needs(d)
    /\ \A d \in Astray : r \in Needs(d) =>
         \/ r = One("pool") /\ subject = "ivps" /\ phase = "undo"
         \/ r = One("grp") /\ subject = "vdec"

(* When the object is gone it has left nothing behind, also after an Init  *)
(* that failed at any call, was called again, and failed elsewhere; but for*)
(* the blocks, never all of them, of a CreatePool that failed, the pool the*)
(* SDK then did not destroy, and the channel of a VDEC group.              *)
Leavings == [ivps |-> {<<"blk", i>> : i \in 1..(N - 1)} \cup {One("pool")},
             vdec |-> {One("vchn")}]
NothingLeft ==
  phase = "gone" =>
    /\ held = {}
    /\ \A x \in stray : subject \in DOMAIN Leavings /\ x[1] \in Leavings[subject]

(* Does not hold.  What a failing call finds taken goes in reverse order:  *)
(* CreatePool destroys the pool before the blocks taken from it.           *)
ReverseOrder == \A r \in Released, d \in (held \cup Astray) \ Released : r \notin Needs(d)

(* Does not hold.  Whichever call failed, the object leaves nothing behind.*)
NothingLeftAtAll == phase = "gone" => held = {} /\ stray = {}
=============================================================================
