--------------------------- MODULE MCMudPipeline ---------------------------
(* MUD files and overrides for TLC: every file of one ACL with one ACE of a
   few shapes, and files that play ACLs and ACEs against each other. *)
EXTENDS MudPipeline

CONSTANTS h1, h2, acl_a, acl_b

Charsets == {Utf8, [in |-> 1, out |-> 2], [in |-> 2, out |-> 1]}
Utf16 == {[in |-> 2, out |-> 1]}

Port(op, p, l, u) == [port |-> [operator |-> op, port |-> p, lower_port |-> l, upper_port |-> u]]
Eq == Port("eq", 443, None, None)
PortRange == Port(None, None, 1, 9)
Neq == Port("neq", 443, None, None)
NoPort == [port |-> None]

Ip(proto, dst, src) == [protocol |-> proto, dst_dnsname |-> dst, src_dnsname |-> src]

JsonAce(udp, tcp, dir, v4, v6, fwd) ==
    [udp |-> udp, tcp |-> tcp, direction_initiated |-> dir, ipv4 |-> v4, ipv6 |-> v6,
     forwarding |-> fwd]

Shapes ==
    {JsonAce(l[1], l[2], l[3], ip[1], ip[2], fwd) :
        l \in {<<None, None, None>>, <<Eq, None, None>>, <<None, PortRange, "from-device">>,
               <<None, Neq, "sideways">>, <<NoPort, Eq, "sideways">>},
        ip \in {<<None, None>>, <<Ip(6, h1, None), None>>, <<None, Ip(None, None, h1)>>,
                <<Ip(None, None, None), None>>, <<Ip(17, h1, None), Ip(None, h2, h1)>>},
        fwd \in {"accept", "drop", "reject"}}

File(ver, hours, from, to, acls) ==
    [mud_version |-> ver, cache_validity |-> hours, from_device_policy |-> from,
     to_device_policy |-> to, acl |-> acls]

Acl(n, type, aces) == [name |-> n, type_field |-> type, ace |-> aces]
V4 == "ipv4-acl-type"
V6 == "ipv6-acl-type"

Yes(h) == JsonAce(None, None, None, Ip(None, h, None), None, "accept")
No(h) == JsonAce(None, Eq, "to-device", Ip(6, None, h), None, "reject")
Mute == JsonAce(Eq, None, None, None, None, "accept")

(* Two ACLs, in both policies or one in each; ACEs that contradict each other,
   an ACE without a host between two, two ACLs of one name. *)
Mixed ==
    {File(1, None, p[1], p[2], acls) :
        p \in {<<<<acl_a>>, <<acl_b>>>>, <<<<acl_a, acl_b>>, <<acl_a>>>>,
               <<<<acl_b, acl_a>>, <<acl_b, acl_a>>>>, <<<<>>, <<acl_b>>>>},
        acls \in {<<Acl(acl_a, V4, <<Yes(h1), No(h1)>>), Acl(acl_b, V4, <<No(h2), Yes(h2)>>)>>,
                  <<Acl(acl_a, V4, <<Yes(h1), Mute, No(h2)>>), Acl(acl_b, V4, <<No(h1), Yes(h2)>>)>>,
                  <<Acl(acl_a, V4, <<No(h2), Yes(h1)>>), Acl(acl_b, V4, <<>>), Acl(acl_a, V4, <<Yes(h2)>>)>>,
                  <<Acl(acl_a, V4, <<Yes(h1)>>)>>}}

MCFiles ==
    {File(1, None, p[1], p[2], <<Acl(acl_a, type, <<s>>)>>) :
        p \in {<<<<acl_a>>, <<>>>>, <<<<>>, <<acl_a>>>>}, type \in {V4, V6}, s \in Shapes}
    \cup Mixed
    \cup {File(v, h, <<acl_a>>, <<>>, <<Acl(acl_a, V4, <<Yes(h1)>>)>>) :
            v \in {1, 2}, h \in {-1, 0, 1, 168, 169}}

MCRevisions == {f \in Mixed : f.to_device_policy = <<acl_b>>}

UserAce(action, proto, h) ==
    [action |-> action, protocol |-> proto, direction_initiated |-> None, dnsname |-> h,
     port |-> None]
UserAcl(n, dir, aces) == [name |-> n, packet_direction |-> dir, acl_type |-> "IPV4", ace |-> aces]

MCOverrides ==
    {<<>>,
     <<UserAcl(acl_a, "FromDevice", <<UserAce("Accept", "Tcp", h2), UserAce("Deny", "Protocol", h1)>>)>>,
     <<UserAcl(acl_b, "ToDevice", <<UserAce("Deny", "Udp", h1), UserAce("Accept", None, None),
                                UserAce("Accept", None, h1)>>)>>,
     <<UserAcl(acl_a, "ToDevice", <<>>), UserAcl(acl_b, "FromDevice", <<UserAce("Accept", "Udp", h1)>>)>>}
============================================================================
