---------------------------- MODULE FirewallRules ---------------------------
(***************************************************************************)
(* From a device and its MUD profile to the rules an enforcer installs:    *)
(* merge_acls, convert_device_to_fw_rules and create_configuration as      *)
(* functions, and what an enforcer makes of a list of rules.               *)
(*                                                                         *)
(* Names, hosts and addresses are values that can be told apart.  The name *)
(* of a rule is its kind and its number.                                   *)
(***************************************************************************)
EXTENDS Integers, Sequences, SequencesExt

CONSTANTS
    Hosts,          \* DNS names and addresses a profile may mention
    AclNames,
    None            \* Option::None

Directions == {"FromDevice", "ToDevice"}
AceProtocols == {"Tcp", "Udp", "Protocol"}      \* Protocol(n) for any number n
RuleProtocols == {"Tcp", "Udp", "All"}
Device == "FirewallDevice"      \* RuleTargetHost::FirewallDevice
Anybody == "anybody"            \* a RuleTarget without a host

ASSUME HostAssumption ==
    /\ None \notin Hosts \cup AclNames \cup AceProtocols
    /\ {Device, Anybody} \cap Hosts = {}

-----------------------------------------------------------------------------
(* What a loop over s that skips some elements keeps: those at the places in K. *)
Filter(s, K) ==
    LET kept[n \in 0..Len(s)] ==
            IF n = 0 THEN <<>> ELSE IF n \in K THEN Append(kept[n - 1], s[n]) ELSE kept[n - 1]
    IN  kept[Len(s)]

(* The original ACLs whose name the override does not have, then the override. *)
merge_acls(original, override_with) ==
    Filter(original, {k \in DOMAIN original :
                         \A i \in DOMAIN override_with : override_with[i].name # original[k].name})
        \o override_with

merged_acls(mud_data) ==
    IF mud_data.acl_override = <<>> THEN mud_data.acllist
    ELSE merge_acls(mud_data.acllist, mud_data.acl_override)

(* The ACEs in the order of the two loops, each with the direction of its ACL. *)
Aces(acls) ==
    FlattenSeq([i \in DOMAIN acls |->
        [j \in DOMAIN acls[i].ace |-> [ace |-> acls[i].ace[j], dir |-> acls[i].packet_direction]]])

RuleProtocol(p) == IF p \in {"Tcp", "Udp"} THEN p ELSE "All"

Verdict(action) == IF action = "Accept" THEN "Accept" ELSE "Reject"

(* The rule of an ACE with a DNS name; index counts every ACE. *)
AceRule(index, dir, ace) ==
    [name |-> <<"rule", index>>,
     src |-> IF dir = "FromDevice" THEN Device ELSE ace.dnsname,
     dst |-> IF dir = "FromDevice" THEN ace.dnsname ELSE Device,
     protocol |-> RuleProtocol(ace.protocol),
     verdict |-> Verdict(ace.action)]

DefaultRule(index, src, dst) ==
    [name |-> <<"rule_default", index>>, src |-> src, dst |-> dst,
     protocol |-> "All", verdict |-> "Reject"]

DefaultRules(n) == <<DefaultRule(n, Device, Anybody), DefaultRule(n + 1, Anybody, Device)>>

(* Mutant: the rules of denying ACEs come last. *)
M_AceRules(aces) ==
    LET rules == [i \in DOMAIN aces |-> AceRule(i - 1, aces[i].dir, aces[i].ace)]
        places(v) == {i \in DOMAIN aces : aces[i].ace.dnsname # None /\ rules[i].verdict = v}
    IN  Filter(rules, places("Accept")) \o Filter(rules, places("Reject"))

AceRules(aces) ==
    Filter([i \in DOMAIN aces |-> AceRule(i - 1, aces[i].dir, aces[i].ace)],
           {i \in DOMAIN aces : aces[i].ace.dnsname # None})

(* A device without a profile has no rules, not even the default ones. *)
convert_device_to_fw_rules(mud_data) ==
    IF mud_data = None THEN <<>>
    ELSE LET aces == Aces(merged_acls(mud_data))
         IN  AceRules(aces) \o DefaultRules(Len(aces))

(* Only devices with an address are part of a configuration. *)
create_configuration(devices) ==
    LET addressed == Filter(devices, {i \in DOMAIN devices : devices[i].ipv4_addr # None
                                                                \/ devices[i].ipv6_addr # None})
    IN  [i \in DOMAIN addressed |-> [id |-> addressed[i].id,
                                     rules |-> convert_device_to_fw_rules(addressed[i].mud_data)]]

-----------------------------------------------------------------------------
(* The enforcer (external): the first rule that matches a packet decides, and
   a packet without a matching rule passes. *)
Packets == [dir: Directions, host: Hosts, protocol: {"Tcp", "Udp", "other"}]

Covers(target, host) == target \in {host, Anybody}

Matches(rule, pkt) ==
    /\ rule.protocol \in {"All", pkt.protocol}
    /\ IF pkt.dir = "FromDevice"
       THEN rule.src = Device /\ Covers(rule.dst, pkt.host)
       ELSE rule.dst = Device /\ Covers(rule.src, pkt.host)

Decide(rules, pkt) ==
    LET first == SelectInSeq(rules, LAMBDA r : Matches(r, pkt))
    IN  IF first = 0 THEN "Accept" ELSE rules[first].verdict
=============================================================================
