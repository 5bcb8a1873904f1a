---------------------------- MODULE EncryptedDNS ----------------------------
(***************************************************************************)
(* Switching the router between plain and encrypted DNS: the row of        *)
(* doh_config, the two stub resolvers, the server list and the             *)
(* strict-order flag of dnsmasq.conf, and what the running dnsmasq has     *)
(* loaded (internal/system/doh.go, internal/system/dns.go 39-63,           *)
(* internal/handler/doh.go, internal/handler/dns.go 67-87).                *)
(*                                                                         *)
(* Requests run one at a time.  Each is a walk through labelled steps; a   *)
(* file is truncated in one step and written in the next.  Any step may    *)
(* fail and end the request, and the router may reboot between two steps.  *)
(***************************************************************************)
EXTENDS Naturals, Sequences, SequencesExt

CONSTANTS
  Providers,       \* the providers on the page
  NoHTTPS,         \* those whose DoH URL does not use https
  PlainLists,      \* the lists of plain servers the user may set
  DefaultPlain,    \* 1.1.1.1, 8.8.8.8
  Installed,       \* the stub packages installed, in the order they are used
  Environments,    \* the sets of circumstances a behaviour may have to live with
  Off              \* no provider: the stub is stopped or has no configuration

StubAddrs == {"stubby", "dnscrypt"}

\* "read":     EnableEncryptedDNS cannot read dnsmasq.conf
\* "save":     the row cannot be saved
\* "conf":     a stub's configuration cannot be written
\* "service":  a stub does not start or stop
\* "truncate": dnsmasq.conf cannot be read or opened to be rewritten
\* "write":    it is written in part only
\* "reload":   rc-service refuses to restart dnsmasq
FaultKinds == {"read", "save", "conf", "service", "truncate", "write", "reload"}

\* Steps that may fail, reboots, and what the user may do on the pages:
\* "reboot":      a reboot, but between the truncation and the write of dnsmasq.conf
\* "midway":      a reboot between these two
\* "noFallback":  choose not to fall back to plain DNS
\* "noHTTPS":     choose a provider in NoHTTPS
\* "toggleAgain": apply "on" while encrypted DNS is on
\* "offWhileOff": apply "off" while it is off
\* "editWhileOn": set plain servers on the DNS page while it is on
\* "oddList":     set a list that is empty or names a stub
Circumstances == FaultKinds \cup {"reboot", "midway"}
  \cup {"noFallback", "noHTTPS", "toggleAgain", "offWhileOff", "editWhileOn", "oddList"}

Ordinary(servers) == servers # << >> /\ Range(servers) \cap StubAddrs = {}

ASSUME DoHAssumption ==
  /\ NoHTTPS \subseteq Providers /\ Off \notin Providers
  /\ Installed \in {<<"stubby">>, <<"dnscrypt">>, <<"stubby", "dnscrypt">>}
  /\ \A l \in PlainLists \cup {DefaultPlain} : l \in Seq(Range(l))
  /\ Ordinary(DefaultPlain)
  /\ Environments \subseteq SUBSET Circumstances

VARIABLES
  may,      \* the circumstances of this behaviour, chosen once
  cfg,      \* the row: enabled, provider, fallback, stash
  conf,     \* dnsmasq.conf: its servers, in order, and strict-order
  loaded,   \* the dnsmasq.conf the running dnsmasq has read
  file,     \* file[s]: the provider in the configuration of stub s
  running,  \* running[s]: the provider stub s forwards to, or Off
  boot,     \* the stubs OpenRC starts at boot
  job,      \* the request in progress: what it does, its new row or list of servers,
            \* the stub it is about, its step, and the text it gives dnsmasq.conf
  plain,    \* history: the plain servers the DNS page wrote last
  behind    \* history: the DNS page's restart was refused, and there was none since

vars == <<may, cfg, conf, loaded, file, running, boot, job, plain, behind>>

Empty == [servers |-> << >>, strict |-> FALSE]

NoJob ==
  [does |-> "nothing", list |-> << >>, stub |-> 1, at |-> "idle", text |-> Empty,
   row |-> [enabled |-> FALSE, provider |-> Off, fallback |-> FALSE, stash |-> << >>]]

Idle == job.at = "idle"

Init ==
  /\ may \in Environments
  /\ plain \in PlainLists /\ (Ordinary(plain) \/ "oddList" \in may)
  /\ conf = [servers |-> plain, strict |-> FALSE]
  /\ loaded = conf
  /\ cfg \in [enabled : {FALSE}, provider : Providers, fallback : {TRUE}, stash : {DefaultPlain}]
  /\ file = [s \in StubAddrs |-> Off]
  /\ running = [s \in StubAddrs |-> Off]
  /\ boot = {}
  /\ job = NoJob
  /\ behind = FALSE

-----------------------------------------------------------------------------
\* The loop of stashUpstreams over the servers that are not stubs.
PlainOnly(servers) ==
  LET addrs[n \in 0 .. Len(servers)] ==
        IF n = 0 THEN << >>
        ELSE IF servers[n] \in StubAddrs THEN addrs[n - 1]
        ELSE Append(addrs[n - 1], servers[n])
  IN  addrs[Len(servers)]

\* A bug: no default servers.
restoreOnlyStash(stash) == stash

restoreUpstreams(stash) == IF stash = << >> THEN DefaultPlain ELSE stash

(* Plausible bugs, for the sensitivity of the properties below.            *)

stashCurrent(current, previous) == PlainOnly(current)

buildUnordered(row) ==
  (IF row.fallback THEN restoreUpstreams(row.stash) ELSE << >>) \o Installed

buildFallbackOfUser(row) == Installed \o (IF row.stash = DefaultPlain THEN << >> ELSE row.stash)

FollowSavesFirst(does, at) ==
  CASE at = "stop"         -> "save"
    [] at = "save"         -> IF does = "enable" THEN "emptyStub" ELSE "strict"
    [] at = "emptyStub"    -> "writeStub"
    [] at = "writeStub"    -> "start"
    [] at = "start"        -> "servers"
    [] at = "servers"      -> "writeServers"
    [] at = "writeServers" -> "restart"
    [] at = "restart"      -> IF does = "enable" THEN "strict"
                              ELSE IF does = "disable" THEN "reload" ELSE "idle"
    [] at = "strict"       -> "writeStrict"
    [] at = "writeStrict"  -> IF does = "enable" THEN "reload" ELSE "servers"
    [] at = "reload"       -> "idle"

-----------------------------------------------------------------------------
(* Helpers of doh.go.                                                      *)

stashUpstreams(current, previous) ==
  IF PlainOnly(current) = << >> THEN previous ELSE PlainOnly(current)

buildEncryptedServers(row) ==
  Installed \o (IF row.fallback THEN restoreUpstreams(row.stash) ELSE << >>)

\* The steps of EnableEncryptedDNS, DisableEncryptedDNS and the DNS page's
\* SetUpstreamServers, which the first two also call.
Follow(does, at) ==
  CASE at = "save"         -> IF does = "enable" THEN "emptyStub" ELSE "reload"
    [] at = "emptyStub"    -> "writeStub"
    [] at = "writeStub"    -> "start"
    [] at = "start"        -> "servers"
    [] at = "stop"         -> "strict"
    [] at = "servers"      -> "writeServers"
    [] at = "writeServers" -> "restart"
    [] at = "restart"      -> IF does = "enable" THEN "strict"
                              ELSE IF does = "disable" THEN "save" ELSE "idle"
    [] at = "strict"       -> "writeStrict"
    [] at = "writeStrict"  -> IF does = "enable" THEN "reload" ELSE "servers"
    [] at = "reload"       -> "idle"

-----------------------------------------------------------------------------
(* The requests.                                                           *)

\* EnableEncryptedDNS up to its first write: the stash is taken from what
\* dnsmasq.conf holds, or from nothing when it cannot be read.
NewRow(provider, fallback, previous) ==
  [enabled |-> TRUE, provider |-> provider, fallback |-> fallback,
   stash |-> stashUpstreams(conf.servers, previous)]

RowWithoutRead(provider, fallback, previous) ==
  [enabled |-> TRUE, provider |-> provider, fallback |-> fallback, stash |-> previous]

Enabling(row)  == [NoJob EXCEPT !.does = "enable", !.at = "save", !.row = row]
Disabling(row) == [NoJob EXCEPT !.does = "disable", !.at = "stop", !.row = row]
Setting(list)  == [NoJob EXCEPT !.does = "page", !.at = "servers", !.list = list]

StartEnable(provider, fallback, previous) ==
  \/ job' = Enabling(NewRow(provider, fallback, previous))
  \/ "read" \in may /\ job' = Enabling(RowWithoutRead(provider, fallback, previous))

MayChoose(provider, fallback) ==
  /\ provider \in NoHTTPS => "noHTTPS" \in may
  /\ ~fallback => "noFallback" \in may

\* POST /doh/toggle with the switch on: the row it builds has no stash.
ToggleOn(provider, fallback) ==
  /\ Idle /\ MayChoose(provider, fallback)
  /\ cfg.enabled => "toggleAgain" \in may
  /\ StartEnable(provider, fallback, << >>)
  /\ UNCHANGED <<may, cfg, conf, loaded, file, running, boot, plain, behind>>

ToggleOff ==
  /\ Idle
  /\ ~cfg.enabled => "offWhileOff" \in may
  /\ job' = Disabling([cfg EXCEPT !.enabled = FALSE])
  /\ UNCHANGED <<may, cfg, conf, loaded, file, running, boot, plain, behind>>

\* POST /doh/config: applied at once while encrypted DNS is on, else saved.
SaveConfigOn(provider, fallback) ==
  /\ Idle /\ cfg.enabled /\ MayChoose(provider, fallback)
  /\ StartEnable(provider, fallback, cfg.stash)
  /\ UNCHANGED <<may, cfg, conf, loaded, file, running, boot, plain, behind>>

SaveConfigOff(provider, fallback) ==
  /\ Idle /\ ~cfg.enabled /\ MayChoose(provider, fallback)
  /\ cfg' = [cfg EXCEPT !.provider = provider, !.fallback = fallback]
  /\ UNCHANGED <<may, conf, loaded, file, running, boot, job, plain, behind>>

\* POST /dns/upstream
SetUpstream(servers) ==
  /\ Idle /\ (Ordinary(servers) \/ "oddList" \in may)
  /\ cfg.enabled => "editWhileOn" \in may
  /\ job' = Setting(servers)
  /\ UNCHANGED <<may, cfg, conf, loaded, file, running, boot, plain, behind>>

-----------------------------------------------------------------------------
(* The steps of a request in progress.                                     *)

Stub == Installed[job.stub]
NextStep == Follow(job.does, job.at)

Done == job' = IF NextStep = "idle" THEN NoJob ELSE [job EXCEPT !.at = NextStep]
Ended == job' = NoJob

SaveRow ==
  /\ job.at = "save"
  /\ cfg' = job.row
  /\ Done
  /\ UNCHANGED <<may, conf, loaded, file, running, boot, plain, behind>>

\* dnscrypt-proxy gets a stamp, which only an https URL has.
HasNoStamp == Stub = "dnscrypt" /\ job.row.provider \in NoHTTPS

TruncateStubConfig ==
  /\ job.at = "emptyStub" /\ ~HasNoStamp
  /\ file' = [file EXCEPT ![Stub] = Off]
  /\ Done
  /\ UNCHANGED <<may, cfg, conf, loaded, running, boot, plain, behind>>

WriteStubConfig ==
  /\ job.at = "writeStub"
  /\ file' = [file EXCEPT ![Stub] = job.row.provider]
  /\ Done
  /\ UNCHANGED <<may, cfg, conf, loaded, running, boot, plain, behind>>

\* rc-service start does nothing to a stub that runs; its error is logged only.
StartStub ==
  /\ job.at = "start"
  /\ \/ running' = [running EXCEPT ![Stub] = IF @ = Off THEN file[Stub] ELSE @]
     \/ "service" \in may /\ running' = running
  /\ boot' = boot \cup {Stub}
  /\ IF job.stub < Len(Installed) THEN job' = [job EXCEPT !.at = "emptyStub", !.stub = @ + 1] ELSE Done
  /\ UNCHANGED <<may, cfg, conf, loaded, file, plain, behind>>

\* stopAllEncryptedDNS ignores errors too.
StopStubs ==
  /\ job.at = "stop"
  /\ \E stuck \in IF "service" \in may THEN SUBSET StubAddrs ELSE {{}} :
       running' = [s \in StubAddrs |-> IF s \in stuck THEN running[s] ELSE Off]
  /\ boot' = {}
  /\ Done
  /\ UNCHANGED <<may, cfg, conf, loaded, file, plain, behind>>

\* SetUpstreamServers and setStrictOrder: the file is read, its new text put
\* together, and the file truncated.
NewServers ==
  CASE job.does = "enable"  -> buildEncryptedServers(job.row)
    [] job.does = "disable" -> restoreUpstreams(job.row.stash)
    [] job.does = "page"    -> job.list

Truncate(text) ==
  /\ job' = [job EXCEPT !.at = NextStep, !.text = text]
  /\ conf' = Empty
  /\ UNCHANGED <<may, cfg, loaded, file, running, boot, plain, behind>>

SetServers == job.at = "servers" /\ Truncate([conf EXCEPT !.servers = NewServers])
SetStrictOrder == job.at = "strict" /\ Truncate([conf EXCEPT !.strict = job.row.enabled])

WriteConf ==
  /\ job.at \in {"writeServers", "writeStrict"}
  /\ conf' = job.text
  /\ plain' = IF job.does = "page" THEN job.list ELSE plain
  /\ Done
  /\ UNCHANGED <<may, cfg, loaded, file, running, boot, behind>>

\* SetUpstreamServers restarts dnsmasq, which ReloadDNSMasq does too.
RestartDNSMasq ==
  /\ job.at \in {"restart", "reload"}
  /\ loaded' = conf /\ behind' = FALSE
  /\ Done
  /\ UNCHANGED <<may, cfg, conf, file, running, boot, plain>>

-----------------------------------------------------------------------------
(* What goes wrong.  A step that fails ends the request; what was done     *)
(* stays done.                                                             *)

StepFails ==
  /\ \/ job.at = "save" /\ "save" \in may
     \/ job.at \in {"emptyStub", "writeStub"} /\ "conf" \in may
     \/ job.at = "emptyStub" /\ HasNoStamp
     \/ job.at \in {"servers", "strict"} /\ "truncate" \in may
  /\ Ended
  /\ UNCHANGED <<may, cfg, conf, loaded, file, running, boot, plain, behind>>

\* The strict-order line is the first of the file, the servers are the last.
WriteFails ==
  /\ job.at \in {"writeServers", "writeStrict"} /\ "write" \in may
  /\ \/ conf' = Empty
     \/ \E n \in 0 .. Len(job.text.servers) :
          conf' = [job.text EXCEPT !.servers = SubSeq(job.text.servers, 1, n)]
  /\ Ended
  /\ UNCHANGED <<may, cfg, loaded, file, running, boot, plain, behind>>

\* The old dnsmasq keeps running.
RestartRefused ==
  /\ job.at \in {"restart", "reload"} /\ "reload" \in may
  /\ behind' = (behind \/ job.does = "page")
  /\ Ended
  /\ UNCHANGED <<may, cfg, conf, loaded, file, running, boot, plain>>

Reboot ==
  /\ IF job.at \in {"writeServers", "writeStrict"} THEN "midway" \in may ELSE "reboot" \in may
  /\ Ended
  /\ loaded' = conf /\ behind' = FALSE
  /\ running' = [s \in StubAddrs |-> IF s \in boot THEN file[s] ELSE Off]
  /\ UNCHANGED <<may, cfg, conf, file, boot, plain>>

Step ==
  \/ SaveRow \/ TruncateStubConfig \/ WriteStubConfig \/ StartStub \/ StopStubs
  \/ SetServers \/ SetStrictOrder \/ WriteConf \/ RestartDNSMasq
  \/ StepFails \/ WriteFails \/ RestartRefused

Next ==
  \/ \E p \in Providers, f \in BOOLEAN : ToggleOn(p, f)
  \/ ToggleOff
  \/ \E p \in Providers, f \in BOOLEAN : SaveConfigOn(p, f)
  \/ \E p \in Providers, f \in BOOLEAN : SaveConfigOff(p, f)
  \/ \E l \in PlainLists : SetUpstream(l)
  \/ Step
  \/ Reboot

Spec == Init /\ [][Next]_vars

-----------------------------------------------------------------------------
(* Properties.                                                             *)

\* "Plain upstream servers are saved and restored when encrypted DNS is disabled."
\* (doh.html:214): between requests, a router without encrypted DNS has the servers
\* the user set, without strict order, and has loaded them unless the DNS page could
\* not restart dnsmasq.
PlainRestored ==
  Idle /\ ~cfg.enabled =>
    conf = [servers |-> plain, strict |-> FALSE] /\ (loaded = conf \/ behind)

\* dnsmasq.conf can be read, and the pages are used as they are meant to be.
UsedAsMeant == may \cap {"read", "toggleAgain", "offWhileOff", "editWhileOn", "oddList"} = {}

\* dnsmasq.conf, once truncated, is written.
WritesComplete == may \cap {"write", "midway"} = {}

\* Used as meant, no other failing step and no reboot loses the user's plain servers,
\* in the file or in dnsmasq: disabling restores them.
PlainRestoredAfterFailures == UsedAsMeant /\ WritesComplete => PlainRestored

\* While encrypted DNS is on, or half on after a failure, the row still knows
\* the user's plain servers.
StashKept == UsedAsMeant /\ WritesComplete /\ cfg.enabled => cfg.stash = plain

\* When nothing fails, dnsmasq asks the encrypted stubs first, in strict order,
\* and the plain servers last and only if the user wants them.
EncryptedInOrder ==
  may \subseteq {"noFallback"} /\ Idle /\ cfg.enabled =>
    /\ loaded = [strict |-> TRUE, servers |-> Installed \o (IF cfg.fallback THEN plain ELSE << >>)]
    /\ \A i \in DOMAIN Installed : running[Installed[i]] # Off

\* dnsmasq has loaded some server that answers.
Answers == \E a \in Range(loaded.servers) : a \in StubAddrs => running[a] # Off

\* With the fallback to plain DNS always on, names keep resolving at any time, also
\* in the middle of a request, whatever fails but a write of dnsmasq.conf.
SomeServerAnswers ==
  may \cap {"noFallback", "oddList"} = {} /\ WritesComplete => Answers

\* With the fallback always on, any request that runs to its end makes names resolve,
\* whatever of dnsmasq.conf was cut off before: a lost stash is made up for by the
\* default servers (doh.go:511-524).
CompletionRepairs ==
  [][may \cap {"noFallback", "oddList"} = {} /\ RestartDNSMasq /\ Idle' => Answers']_vars
=============================================================================
