---------------------------- MODULE DnsmasqFiles ----------------------------
(***************************************************************************)
(* The files dnsmasq is configured by, /etc/dnsmasq.conf and reservas.conf,*)
(* as the DHCP, DNS and encrypted-DNS pages change them                    *)
(* (internal/system/dhcp.go, dns.go, doh.go and their handlers).           *)
(*                                                                         *)
(* A file is a set of lines, each a pair of its section and its value; the *)
(* server= lines, always replaced together, are one line.  A rewrite reads *)
(* the file, truncates it and writes it, and takes no lock.                *)
(***************************************************************************)
CONSTANTS
  Requests,      \* slots for HTTP requests in flight
  Ranges, Lists, Names, MACs, IPs,
  Environments   \* what a behaviour may have to live with: mishaps, and the
                 \* sections that its requests change

\* The steps that may fail, reboots, and two requests in flight at once.  "save"
\* is the row that DisableEncryptedDNS writes between two restarts.
FaultKinds == {"check", "read", "truncate", "write", "append", "reload", "save"}
Mishaps == FaultKinds \cup {"reboot", "overlap"}

Sections == {"range", "server", "strict", "address", "host"}

ASSUME FilesAssumption == Environments \subseteq SUBSET (Mishaps \cup Sections)

VARIABLES
  may,       \* the mishaps and the sections of this behaviour, chosen once
  file,      \* file[f]: the lines of f
  loaded,    \* what the running dnsmasq has read
  step,      \* where each request is
  op,        \* what each request is doing: to a section, values to drop and to
             \* add, and what it is part of
  got        \* the lines a rewrite has read

vars == <<may, file, loaded, step, op, got>>

Conf == "dnsmasq.conf"
Reservations == "reservas.conf"
Files == {Conf, Reservations}
FileOf(s) == IF s = "host" THEN Reservations ELSE Conf

Values == [range   |-> Ranges,
           server  |-> Lists,
           strict  |-> {"on"},
           address |-> Names \X IPs,
           host    |-> MACs \X IPs]

\* The values of a section that a file with these lines holds.
Holds(lines, s) == {v \in Values[s] : <<s, v>> \in lines}

Steps == {"idle", "check", "append", "read", "truncate", "write", "reload"}

Idle == \A r \in Requests : step[r] = "idle"

\* A request of a DHCP or DNS page changes one section.  Encrypted DNS changes two
\* in turn: "enable" stands for its first change when it is switched on, "disable"
\* and "restore" for the two when it is switched off.
Parts == {"page", "enable", "disable", "restore"}

Edit(part, s, drop, add) == [drop |-> drop, add |-> add, of |-> part, sec |-> s]

Servers(part, l)         == Edit(part, "server", Lists, {l})
SetStrictOrder(part, on) == Edit(part, "strict", {"on"}, on)

Nothing == Edit("page", "range", {}, {})

Init ==
  /\ may \in Environments
  /\ \E v \in Ranges, l \in Lists :
       file = [f \in Files |-> IF f = Conf THEN {<<"range", v>>, <<"server", l>>} ELSE {}]
  /\ loaded = file
  /\ step = [r \in Requests |-> "idle"]
  /\ op = [r \in Requests |-> Nothing]
  /\ got = [r \in Requests |-> {}]

Go(r, from, to) ==
  /\ step[r] = from
  /\ step' = [step EXCEPT ![r] = to]

Turn(r, to, edit) ==
  /\ step' = [step EXCEPT ![r] = to]
  /\ op' = [op EXCEPT ![r] = edit]
  /\ got' = [got EXCEPT ![r] = {}]

End(r) == Turn(r, "idle", Nothing)

F(r) == FileOf(op[r].sec)

SetFile(f, lines) == file' = [file EXCEPT ![f] = lines]

\* A bug: the rewrite keeps its own section only.
NewKeepsSectionOnly(r) ==
  {op[r].sec} \X ((Holds(got[r], op[r].sec) \ op[r].drop) \cup op[r].add)

\* What a rewrite writes: the lines it has read, with its section changed.
New(r) == (got[r] \ ({op[r].sec} \X op[r].drop)) \cup ({op[r].sec} \X op[r].add)

\* The duplicate check of addEntry and addReservation.
Clash(s, v, w) == v[1] = w[1] \/ (s = "host" /\ v[2] = w[2])

-----------------------------------------------------------------------------
(* Plausible bugs, for the sensitivity of the properties below.            *)

\* The check reads dnsmasq.conf whatever the section.
CheckConf(r) ==
  /\ step[r] = "check"
  /\ LET taken == \E v \in op[r].add, w \in Holds(file[Conf], op[r].sec) : Clash(op[r].sec, v, w)
     IN  IF taken THEN End(r) ELSE Go(r, "check", "append") /\ UNCHANGED <<op, got>>
  /\ UNCHANGED <<may, file, loaded>>

AppendWithoutReload(r) ==
  /\ step[r] = "append"
  /\ SetFile(F(r), file[F(r)] \cup ({op[r].sec} \X op[r].add))
  /\ End(r)
  /\ UNCHANGED <<may, loaded>>

-----------------------------------------------------------------------------
(* The handlers, up to their first access to a file.                       *)

Begin(r, first, edit) ==
  /\ edit.sec \in may
  /\ "overlap" \in may \/ Idle
  /\ Go(r, "idle", first)
  /\ op' = [op EXCEPT ![r] = edit]
  /\ UNCHANGED <<may, file, loaded, got>>

SaveDHCPConfig(r, v)    == Begin(r, "read", Edit("page", "range", Ranges, {v}))
SetUpstream(r, l)       == Begin(r, "read", Servers("page", l))
DeleteEntry(r, n)       == Begin(r, "read", Edit("page", "address", {n} \X IPs, {}))
DeleteReservation(r, m) == Begin(r, "read", Edit("page", "host", {m} \X IPs, {}))
AddEntry(r, v)          == Begin(r, "check", Edit("page", "address", {}, {v}))
AddReservation(r, v)    == Begin(r, "check", Edit("page", "host", {}, {v}))

\* The part of the toggle that is about dnsmasq.conf.
EnableEncryptedDNS(r, l) == "strict" \in may /\ Begin(r, "read", Servers("enable", l))
DisableEncryptedDNS(r)   == Begin(r, "read", SetStrictOrder("disable", {}))

-----------------------------------------------------------------------------
(* The steps of a request in flight.                                       *)

\* A file that cannot be read counts as empty.
Check(r) ==
  /\ step[r] = "check"
  /\ LET s == op[r].sec
         taken == \E v \in op[r].add, w \in Holds(file[F(r)], s) : Clash(s, v, w)
     IN  \/ taken /\ End(r)
         \/ (~taken \/ "check" \in may) /\ Go(r, "check", "append") /\ UNCHANGED <<op, got>>
  /\ UNCHANGED <<may, file, loaded>>

\* O_APPEND: the line lands at the end of whatever the file then holds.
AppendLine(r) ==
  /\ Go(r, "append", "reload")
  /\ SetFile(F(r), file[F(r)] \cup ({op[r].sec} \X op[r].add))
  /\ UNCHANGED <<may, loaded, op, got>>

Read(r) ==
  /\ Go(r, "read", "truncate")
  /\ got' = [got EXCEPT ![r] = file[F(r)]]
  /\ UNCHANGED <<may, file, loaded, op>>

\* os.WriteFile opens with O_TRUNC, then writes.
Truncate(r) ==
  /\ Go(r, "truncate", "write")
  /\ SetFile(F(r), {})
  /\ UNCHANGED <<may, loaded, op, got>>

\* The write starts at the beginning of the file: of lines that others wrote
\* since it was truncated, some lie beyond its end and survive.  A restart follows,
\* except after the first change of DisableEncryptedDNS.
WriteTo(r, f) ==
  /\ step[r] = "write"
  /\ \E beyond \in SUBSET file[f] : SetFile(f, New(r) \cup beyond)
  /\ \/ op[r].of # "disable" /\ Go(r, "write", "reload") /\ UNCHANGED <<op, got>>
     \/ op[r].of = "disable" /\ \E l \in Lists : Turn(r, "read", Servers("restore", l))
  /\ UNCHANGED <<may, loaded>>

\* A bug: the rewrite goes to dnsmasq.conf whatever the section.
WriteToConf(r) == WriteTo(r, Conf)

Write(r) == WriteTo(r, F(r))

\* After the first restart of EnableEncryptedDNS comes its second change; after that
\* of DisableEncryptedDNS the row is saved, and dnsmasq restarted once more.
Restarted(r) ==
  \/ op[r].of = "page" /\ End(r)
  \/ op[r].of = "enable" /\ Turn(r, "read", SetStrictOrder("page", {"on"}))
  \/ op[r].of = "restore" /\ Turn(r, "reload", [op[r] EXCEPT !.of = "page"])
  \/ op[r].of = "restore" /\ "save" \in may /\ End(r)

\* dnsmasq restarts and reads both files; a restart that is refused ends the request.
Reload(r) ==
  /\ step[r] = "reload"
  /\ \/ loaded' = file /\ Restarted(r)
     \/ "reload" \in may /\ UNCHANGED loaded /\ End(r)
  /\ UNCHANGED <<may, file>>

StepFails(r) ==
  /\ step[r] \in (FaultKinds \ {"check", "reload", "save"}) \cap may
  /\ End(r)
  /\ UNCHANGED <<may, file, loaded>>

Reboot ==
  /\ "reboot" \in may
  /\ step' = [r \in Requests |-> "idle"]
  /\ op' = [r \in Requests |-> Nothing]
  /\ got' = [r \in Requests |-> {}]
  /\ loaded' = file
  /\ UNCHANGED <<may, file>>

Start(r) ==
  \/ \E v \in Ranges : SaveDHCPConfig(r, v)
  \/ \E l \in Lists : SetUpstream(r, l)
  \/ \E l \in Lists : EnableEncryptedDNS(r, l)
  \/ DisableEncryptedDNS(r)
  \/ \E n \in Names : DeleteEntry(r, n)
  \/ \E m \in MACs : DeleteReservation(r, m)
  \/ \E v \in Values.address : AddEntry(r, v)
  \/ \E v \in Values.host : AddReservation(r, v)

Next ==
  \/ \E r \in Requests : Start(r)
  \/ \E r \in Requests : Check(r)
  \/ \E r \in Requests : AppendLine(r)
  \/ \E r \in Requests : Read(r)
  \/ \E r \in Requests : Truncate(r)
  \/ \E r \in Requests : Write(r)
  \/ \E r \in Requests : Reload(r)
  \/ \E r \in Requests : StepFails(r)
  \/ Reboot

Spec == Init /\ [][Next]_vars

-----------------------------------------------------------------------------
(* Properties.                                                             *)

Lines == UNION {{s} \X Values[s] : s \in Sections}

TypeOK ==
  /\ may \in Environments
  /\ file \in [Files -> SUBSET Lines]
  /\ loaded \in [Files -> SUBSET Lines]
  /\ \A f \in Files : \A l \in file[f] : FileOf(l[1]) = f
  /\ step \in [Requests -> Steps]
  /\ DOMAIN op = Requests
  /\ \A r \in Requests :
       /\ op[r].of \in Parts
       /\ op[r].sec \in Sections
       /\ op[r].drop \subseteq Values[op[r].sec]
       /\ op[r].add \subseteq Values[op[r].sec]
  /\ got \in [Requests -> SUBSET Lines]

\* Requests one at a time, whose duplicate checks can read the file.
Serial == may \cap {"overlap", "check"} = {}

\* Nothing comes between the truncation of a file and its write, either.
Calm == Serial /\ may \cap {"write", "reboot"} = {}

\* Each request changes what the files say in one step, at its write: until
\* then a file it has truncated still stands for the lines it has read.
Current(f) ==
  IF \E r \in Requests : step[r] = "write" /\ F(r) = f
  THEN got[CHOOSE r \in Requests : step[r] = "write" /\ F(r) = f]
  ELSE file[f]

Settings == INSTANCE DnsmasqSettings
              WITH settings <- [s \in Sections |-> Holds(Current(FileOf(s)), s)],
                   calm <- Calm

\* Requests that do not overlap and are not cut short change their own section,
\* at once and nothing else, and never add a name, a MAC or an address twice.
ImplementsSettings == Settings!Spec

\* The duplicate checks of the handlers (handler/dns.go:100, handler/dhcp.go:88):
\* one entry per name, one reservation per MAC and per address, whatever fails
\* and whenever the router reboots, as long as requests do not overlap.
NoDuplicates ==
  Serial => \A s \in {"address", "host"} : \A v, w \in Holds(file[FileOf(s)], s) :
              v # w => ~Clash(s, v, w)

\* DisableEncryptedDNS restarts nothing between its two changes: when the second
\* cannot read or open the file, the first has been made and not loaded
\* (doh.go 295-302).
LeftUnloaded == "strict" \in may /\ may \cap {"read", "truncate"} # {}

\* However requests overlap, once the last one is over the running dnsmasq has
\* read what the files hold, unless a write or a restart failed or a change was
\* left unloaded.
LoadedWhenIdle ==
  Idle /\ may \cap {"write", "reload"} = {} /\ ~LeftUnloaded => loaded = file
=============================================================================
