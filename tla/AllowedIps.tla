---------------------------- MODULE AllowedIps ----------------------------
(* A table from networks to data, device/allowed_ips.rs.  An address is a     *)
(* number of AddrBits bits, a network <<address, cidr>>, and a table a        *)
(* function whose domain is its networks.                                     *)
EXTENDS Integers, Functions

CONSTANT AddrBits

ASSUME AddrBitsAssumption == AddrBits \in Nat

Truncate(addr, cidr) == addr - (addr % 2^(AddrBits - cidr))

\* The network of an allowed_ip: host bits are dropped.
Network(ip) == <<Truncate(ip[1], ip[2]), ip[2]>>

\* AllowedIps::insert of each of ips: a network that is in the table already is
\* given to d.
InsertAll(table, ips, d) ==
    LET nets == {Network(ip) : ip \in ips}
    IN  [net \in nets \cup DOMAIN table |-> IF net \in nets THEN d ELSE table[net]]

\* AllowedIps::remove of everything that is d's.
Remove(table, d) == Restrict(table, {net \in DOMAIN table : table[net] # d})

Matching(table, addr) ==
    {net \in DOMAIN table : Truncate(addr, net[2]) = net[1]}

\* AllowedIps::find, by longest match; only for an address that matches.
Find(table, addr) ==
    table[CHOOSE net \in Matching(table, addr) :
            \A other \in Matching(table, addr) : other[2] <= net[2]]
=============================================================================
