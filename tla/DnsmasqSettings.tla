-------------------------- MODULE DnsmasqSettings --------------------------
(***************************************************************************)
(* What the DHCP and DNS pages promise about dnsmasq's configuration:      *)
(* every request changes its own section, at once and nothing else; a host *)
(* name has one entry, and a MAC or an address one reservation.  Nothing   *)
(* is promised when requests overlap or are cut short.                     *)
(***************************************************************************)
CONSTANTS
  Ranges,      \* DHCP ranges
  Lists,       \* lists of upstream servers
  Names, MACs, IPs

VARIABLES
  settings,    \* settings[s]: the values of section s
  calm         \* whether requests come one at a time and run to their end

Sections == {"range", "server", "strict", "address", "host"}

Values == [range   |-> Ranges,
           server  |-> Lists,
           strict  |-> {"on"},
           address |-> Names \X IPs,      \* local entries
           host    |-> MACs \X IPs]       \* reservations

\* Two local entries clash on the name, two reservations on the MAC or the IP.
Clash(s, v, w) == v[1] = w[1] \/ (s = "host" /\ v[2] = w[2])

Change(s, drop, add) == settings' = [settings EXCEPT ![s] = (@ \ drop) \cup add]

Init ==
  /\ calm \in BOOLEAN
  /\ \E v \in Ranges, l \in Lists :
       settings = [s \in Sections |-> CASE s = "range"  -> {v}
                                        [] s = "server" -> {l}
                                        [] OTHER        -> {}]

SaveDHCPConfig(v)    == Change("range", Ranges, {v})
SetUpstream(l)       == Change("server", Lists, {l})
SetStrictOrder(on)   == Change("strict", {"on"}, on)
DeleteEntry(n)       == Change("address", {n} \X IPs, {})
DeleteReservation(m) == Change("host", {m} \X IPs, {})

Add(s, v) ==
  /\ \A w \in settings[s] : ~Clash(s, v, w)
  /\ Change(s, {}, {v})

Request ==
  \/ \E v \in Ranges : SaveDHCPConfig(v)
  \/ \E l \in Lists : SetUpstream(l)
  \/ \E on \in SUBSET {"on"} : SetStrictOrder(on)
  \/ \E n \in Names : DeleteEntry(n)
  \/ \E m \in MACs : DeleteReservation(m)
  \/ \E s \in {"address", "host"} : \E v \in Values[s] : Add(s, v)

Next == (calm => Request) /\ UNCHANGED calm

Spec == Init /\ [][Next]_<<settings, calm>>
=============================================================================
