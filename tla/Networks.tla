------------------------------ MODULE Networks ------------------------------
(***************************************************************************)
(* Computations over networks: the template functions that divide CIDRs,   *)
(* count addresses and parse port ranges, and the choice of the subnets of *)
(* a cluster.  An address is a number of AddrBits bits (32 in the code), a *)
(* network its first address and the length of its prefix.                 *)
(*                                                                         *)
(* A function that returns a value and an error returns Ok(value) or Fails.*)
(***************************************************************************)
EXTENDS Integers, SequencesExt

CONSTANTS AddrBits, ByteBits

ASSUME WidthAssumption == AddrBits \in 8..30 /\ ByteBits \in 1..AddrBits

Ok(v) == [ok |-> TRUE, val |-> v]
Fails == [ok |-> FALSE]

Positions(s) == [i \in DOMAIN s |-> i]

-----------------------------------------------------------------------------
(* Networks *)

Word(n) == n % 2^AddrBits   \* uint32
Net(ip, ones) == [ip |-> ip, ones |-> ones]
Masked(ip, ones) == ip - (ip % 2^(AddrBits - ones))

\* subdivide, for sizes from 1 to AddrBits
subdivide(network, size) ==
    IF size < network.ones THEN Fails
    ELSE LET all == Word(2^(AddrBits - network.ones)) part == Word(2^(AddrBits - size))
         IN  Ok([i \in 1..(all \div part) |-> Net(Word(network.ip + (i - 1) * part), size)])

\* The second quarter of the VPC holds the NAT networks.
stupsNATSubnets(vpc) ==
    IF vpc.ones = 0 \/ vpc.ones > AddrBits - 8 THEN Fails
    ELSE LET quarters == subdivide(vpc, vpc.ones + 2)
             networks == subdivide(quarters.val[2], AddrBits - 4)
         IN  Ok(SubSeq(networks.val, 1, 3))

\* Only the last byte is incremented, and it wraps.
nthAddressFromCIDR(network, n) ==
    LET low == network.ip % 2^ByteBits
    IN  (network.ip - low) + ((low + n) % 2^ByteBits)

checkCIDRMaxSize(mask) == mask \in 24..28

nodeCIDRMaxNodes(podMask, mask, reserved) ==
    IF podMask \notin 14..16 \/ ~checkCIDRMaxSize(mask) THEN Fails
    ELSE Ok(2 * 2^(mask - podMask - 1) - reserved)

nodeCIDRMaxPods(mask, extra) ==
    IF ~checkCIDRMaxSize(mask) THEN Fails
    ELSE LET pods == 2 * 2^(32 - mask - 2) + extra
         IN  Ok(IF pods > 110 THEN 110 ELSE pods)

-----------------------------------------------------------------------------
(* Port ranges, as the parts of the configured text: a number that cannot be *)
(* parsed is -1.                                                             *)

highestPossiblePort == 65535

validPortRange(from, to) == from <= to /\ to <= highestPossiblePort /\ from >= 0

EachItem(items, F(_)) ==
    IF \A i \in DOMAIN items : F(items[i]).ok
    THEN Ok([i \in DOMAIN items |-> F(items[i]).val]) ELSE Fails

PortRange(ports) ==
    IF Len(ports) = 2 /\ -1 \notin {ports[1], ports[2]} /\ validPortRange(ports[1], ports[2])
    THEN Ok([from |-> ports[1], to |-> ports[2]]) ELSE Fails

portRanges(ranges) == EachItem(ranges, PortRange)

\* A single port is a range of its own; the protocol may be left out.
SGIngressRange(r) ==
    LET ports == PortRange(IF Len(r.ports) = 1 THEN r.ports \o r.ports ELSE r.ports)
        protocol == IF r.fields = 2 THEN "tcp" ELSE r.protocol
    IN  IF r.fields \in {2, 3} /\ protocol \in {"tcp", "udp"} /\ r.cidr.ok /\ ports.ok
        THEN Ok([cidr |-> Masked(r.cidr.val.ip, r.cidr.val.ones), from |-> ports.val.from,
                 to |-> ports.val.to, protocol |-> protocol])
        ELSE Fails

sgIngressRanges(ranges) == EachItem(ranges, SGIngressRange)

-----------------------------------------------------------------------------
(* The subnets of a cluster.  A subnet: its ID, zone, tags and the length of *)
(* the prefix of its IPv4 CIDR.  AZInfo: the subnet of each zone.            *)

isCustomSubnet(s) == "custom" \in s.tags

filterSubnets(subnets, ids) ==
    SelectSeq(subnets, LAMBDA s : ~isCustomSubnet(s) /\ (ids = <<>> \/ s.id \in Range(ids)))

\* A bug: a tag of the subnet that was found first is not looked at.
FirstTaggedWins(existing, s, tag) ==
    IF tag \in s.tags THEN s ELSE IF existing.id > s.id THEN s ELSE existing

\* A tagged subnet is preferred, then the one with the smaller ID.
Better(existing, s, tag) ==
    IF (tag \in existing.tags) # (tag \in s.tags)
    THEN IF tag \in s.tags THEN s ELSE existing
    ELSE IF existing.id > s.id THEN s ELSE existing

AddSubnet(byAZ, s, tag) ==
    IF s.az \in DOMAIN byAZ THEN [byAZ EXCEPT ![s.az] = Better(@, s, tag)]
    ELSE [az \in DOMAIN byAZ \cup {s.az} |-> IF az = s.az THEN s ELSE byAZ[az]]

selectSubnetIDs(subnets, tag) ==
    FoldLeft(LAMBDA byAZ, s : AddSubnet(byAZ, s, tag), [az \in {} |-> 0], subnets)

RestrictAZs(info, zones) == [az \in DOMAIN info \cap zones |-> info[az]]

AvailabilityZones(info) == SetToSortSeq(DOMAIN info, <)

\* The entry of the virtual zone *, in the order of the zones
AllSubnets(info) == [i \in DOMAIN AvailabilityZones(info) |-> info[AvailabilityZones(info)[i]].id]

\* Go's division: the quotient is cut, not rounded down.
Quotient(a, b) == IF a < 0 THEN -((-a) \div b) ELSE a \div b

\* The addresses of the subnets that have an IPv4 CIDR (a prefix longer than 0),
\* five of which AWS reserves in each.
MaxNodes(info, usablePercent) ==
    LET v4 == {az \in DOMAIN info : info[az].ones > 0}
        addresses == FoldLeft(LAMBDA n, az : n + 2^(AddrBits - info[az].ones) - 5,
                              0, SetToSeq(v4))
    IN  IF usablePercent \notin 1..100 \/ v4 = {} THEN Fails
        ELSE Ok(Quotient(addresses * usablePercent, 100))

\* The only VPC of the account, or the default one.
GetDefaultVPC(vpcs) ==
    LET default == SelectSeq(vpcs, LAMBDA v : v.default)
    IN  IF Len(vpcs) = 1 THEN Ok(vpcs[1].id)
        ELSE IF default # <<>> THEN Ok(default[1].id) ELSE Fails

GetVPC(vpcs, id) == IF \E i \in DOMAIN vpcs : vpcs[i].id = id THEN Ok(id) ELSE Fails

GetSubnets(subnets, vpc) == SelectSeq(subnets, LAMBDA s : s.vpc = vpc)

\* The config item: << >> if it is not set, else the number it holds or Fails.
nodeSubnetsUsablePercent(item) == IF item = <<>> THEN Ok(90) ELSE item[1]

\* provision: cfg holds the configured VPC, subnets and zones (none if empty) and
\* the config item of the usable percentage; aws what the account has.
NodeSubnets(aws, cfg) ==
    LET vpc == IF cfg.vpc = "" THEN GetDefaultVPC(aws.vpcs) ELSE GetVPC(aws.vpcs, cfg.vpc)
        usable == filterSubnets(GetSubnets(aws.subnets, vpc.val), cfg.ids)
        info == selectSubnetIDs(usable, "node")
        zones == IF cfg.zones = {} THEN info ELSE RestrictAZs(info, cfg.zones)
        percent == nodeSubnetsUsablePercent(cfg.percent)
        maxNodes == MaxNodes(zones, percent.val)
    IN  IF ~vpc.ok \/ ~percent.ok THEN Fails
        ELSE IF (cfg.ids # <<>> /\ Len(usable) # Len(cfg.ids)) \/ ~maxNodes.ok THEN Fails
        ELSE Ok([subnets |-> AllSubnets(zones), maxNodes |-> maxNodes.val])

-----------------------------------------------------------------------------
(* What these results must satisfy *)

Addresses(network) == network.ip..(network.ip + 2^(AddrBits - network.ones) - 1)

Partition(networks, whole) ==
    /\ UNION {Addresses(networks[i]) : i \in DOMAIN networks} = whole
    /\ \A i, j \in DOMAIN networks : i # j => Addresses(networks[i]) \cap Addresses(networks[j]) = {}

\* A network is divided into networks that do not overlap and that make up the
\* whole of it, although the numbers of addresses are computed in 32 bits; a /0
\* is the one that overflows.
Divides(network, size) ==
    LET parts == subdivide(network, size)
    IN  IF size < network.ones THEN ~parts.ok
        ELSE IF network.ones = 0 THEN parts.val = <<>>
        ELSE Partition(parts.val, Addresses(network))

\* Three NAT networks lie apart from each other in the second quarter of the VPC.
NATApart(vpc) ==
    LET nat == stupsNATSubnets(vpc)
        quarter == Net(vpc.ip + 2^(AddrBits - vpc.ones - 2), vpc.ones + 2)
    IN  nat.ok =>
        /\ Len(nat.val) = 3
        /\ \A i \in 1..3 : Addresses(nat.val[i]) \subseteq Addresses(quarter)
        /\ Partition(nat.val, UNION {Addresses(nat.val[i]) : i \in 1..3})

\* The n-th address is the one that n steps lead to as long as the last byte does
\* not overflow.  Beyond that it is not, although the network may go on: the result
\* is another address with the same upper bytes.
NthIsNth(network, n) ==
    LET nth == nthAddressFromCIDR(network, n)
    IN  /\ nth = network.ip + n <=> (network.ip % 2^ByteBits) + n < 2^ByteBits
        /\ nth \div 2^ByteBits = network.ip \div 2^ByteBits

\* As many nodes as node networks fit into the pod network beside the reserved
\* ones; a node network has at least two addresses for each of its pods.
NodesFit(podMask, mask, reserved) ==
    LET nodes == nodeCIDRMaxNodes(podMask, mask, reserved)
        pods == nodeCIDRMaxPods(mask, 0)
    IN  nodes.ok => /\ (nodes.val + reserved) * 2^(32 - mask) = 2^(32 - podMask)
                    /\ 2 * pods.val <= 2^(32 - mask)

\* Every zone of the VPC that has a subnet gets one, the tagged one with the smallest ID if
\* one is tagged, in whatever order AWS lists them; configured subnets are all
\* used or refused.  The number of nodes is the largest that the configured part of
\* the addresses AWS leaves has room for, and not positive if it has room for none;
\* a part that is set to no number from 1 to 100, be it 0, is refused.
ChoosesBest(aws, cfg) ==
    LET result == NodeSubnets(aws, cfg)
        wanted == {v \in Range(aws.vpcs) : IF cfg.vpc = "" THEN v.default \/ Len(aws.vpcs) = 1 ELSE v.id = cfg.vpc}
        usable == {s \in Range(aws.subnets) : s.vpc \in {v.id : v \in wanted} /\ "custom" \notin s.tags /\ (cfg.ids = <<>> \/ s.id \in Range(cfg.ids))}
        zones == {s.az : s \in usable} \cap (IF cfg.zones = {} THEN {s.az : s \in usable} ELSE cfg.zones)
        best(az) == CHOOSE s \in usable :
                        /\ s.az = az
                        /\ \A t \in usable : t.az = az =>
                              \/ "node" \in s.tags /\ "node" \notin t.tags
                              \/ ("node" \in s.tags <=> "node" \in t.tags) /\ s.id <= t.id
        chosen == {best(az) : az \in zones}
        used == {s \in chosen : s.ones > 0}
        addresses == FoldLeft(LAMBDA n, s : n + 2^(AddrBits - s.ones) - 5, 0, SetToSeq(used))
        set == cfg.percent # <<>>
        share == addresses * (IF set THEN cfg.percent[1].val ELSE 90)
    IN  /\ result.ok =>
              /\ Range(result.val.subnets) = {s.id : s \in chosen}
              /\ Len(result.val.subnets) = Cardinality(zones)
              /\ result.val.maxNodes > 0 => 100 * result.val.maxNodes <= share
              /\ 100 * (result.val.maxNodes + 1) > share
              /\ \A id \in Range(cfg.ids) : \E s \in usable : s.id = id
        /\ result.ok <=> /\ used # {} /\ (set => cfg.percent[1].ok /\ cfg.percent[1].val \in 1..100)
                         /\ (cfg.ids # <<>> => Cardinality(usable) = Len(cfg.ids))

\* Either every range is returned with its ports, or none is.
RangesWhole(ranges) ==
    LET result == sgIngressRanges(ranges)
        good(r) == /\ r.fields \in {2, 3} /\ (r.fields = 3 => r.protocol # "icmp") /\ r.cidr.ok
                   /\ Len(r.ports) \in {1, 2} /\ \A i \in DOMAIN r.ports : r.ports[i] \in 0..highestPossiblePort
                   /\ r.ports[1] <= Last(r.ports)
    IN  /\ result.ok <=> \A i \in DOMAIN ranges : good(ranges[i])
        /\ result.ok => /\ Len(result.val) = Len(ranges)
                        /\ \A i \in DOMAIN ranges : result.val[i].to = Last(ranges[i].ports)
        /\ portRanges([i \in DOMAIN ranges |-> ranges[i].ports]).ok =>
              \A i \in DOMAIN ranges : Len(ranges[i].ports) = 2
=============================================================================
