------------------------------ MODULE MudParser -----------------------------
(***************************************************************************)
(* parse_mud: from the JSON of a MUD file (RFC 8520) to the profile the    *)
(* controller stores.                                                      *)
(*                                                                         *)
(* A file is the record serde makes of it.  Source and destination port    *)
(* are treated alike by the code and are one port here; networks, texts    *)
(* and the MASA server are kept by the code but decide nothing and are     *)
(* left out.                                                               *)
(***************************************************************************)
EXTENDS FirewallRules

DefaultValidity == 48       \* hours
MaxValidity == 168

(* Mutant: zero hours are accepted. *)
M_ValidityOK(h) == h >= 0 /\ h <= MaxValidity

ValidityOK(h) == h >= 1 /\ h <= MaxValidity

cache_validity(file) == IF file.cache_validity = None THEN DefaultValidity ELSE file.cache_validity

AclTypeOf(acl) == IF acl.type_field = "ipv4-acl-type" THEN "IPV4" ELSE "IPV6"

(* The first ACL of that name, 0 if there is none. *)
FindAcl(file, name) == SelectInSeq(file.acl, LAMBDA a : a.name = name)

(* The three errors of one ACE.  udp hides tcp, and ipv6 hides ipv4. *)
AceInvalid(a, type) ==
    \/ a.udp = None /\ a.tcp # None
       /\ a.direction_initiated \notin {None, "from-device", "to-device"}
    \/ a.ipv6 # None /\ type # "IPV6"
    \/ a.ipv6 = None /\ a.ipv4 # None /\ type # "IPV4"

PolicyInvalid(file, names) ==
    \E i \in DOMAIN names :
        LET k == FindAcl(file, names[i])
        IN  \/ k = 0                                            \* dangling ACL policy
            \/ \E j \in DOMAIN file.acl[k].ace :
                  AceInvalid(file.acl[k].ace[j], AclTypeOf(file.acl[k]))

Parsable(file) ==
    /\ file.mud_version = 1
    /\ ValidityOK(cache_validity(file))
    /\ ~PolicyInvalid(file, file.from_device_policy)
    /\ ~PolicyInvalid(file, file.to_device_policy)

-----------------------------------------------------------------------------
(* One port with the operator eq, or a range without an operator; anything
   else is an error, which the caller turns into no port at all. *)
parse_mud_port(p) ==
    IF p = None THEN None
    ELSE IF p.port # None
    THEN IF p.operator = "eq" THEN [single |-> p.port] ELSE None
    ELSE IF p.lower_port # None /\ p.upper_port # None /\ p.operator = None
    THEN [range |-> <<p.lower_port, p.upper_port>>]
    ELSE None

(* Mutant: whatever is not dropped is accepted. *)
M_ActionOf(forwarding) == IF forwarding = "drop" THEN "Deny" ELSE "Accept"

ActionOf(forwarding) == IF forwarding = "accept" THEN "Accept" ELSE "Deny"

DirectionOf(d) ==
    CASE d = "from-device" -> "FromDevice"
      [] d = "to-device" -> "ToDevice"
      [] OTHER -> None

(* An ipv6 or ipv4 block replaces the protocol of the udp or tcp block by its
   protocol number, or by none. *)
parse_ace(a) ==
    LET l4 == IF a.udp # None THEN a.udp ELSE a.tcp
        ip == IF a.ipv6 # None THEN a.ipv6 ELSE a.ipv4
    IN  [action |-> ActionOf(a.forwarding),
         protocol |-> IF ip # None THEN (IF ip.protocol = None THEN None ELSE "Protocol")
                      ELSE IF a.udp # None THEN "Udp"
                      ELSE IF a.tcp # None THEN "Tcp" ELSE None,
         direction_initiated |-> IF a.udp = None /\ a.tcp # None
                                 THEN DirectionOf(a.direction_initiated) ELSE None,
         dnsname |-> IF ip = None THEN None
                     ELSE IF ip.dst_dnsname # None THEN ip.dst_dnsname ELSE ip.src_dnsname,
         port |-> IF l4 = None THEN None ELSE parse_mud_port(l4.port)]

parse_device_policy(file, names, dir) ==
    [i \in DOMAIN names |->
        LET acl == file.acl[FindAcl(file, names[i])]
        IN  [name |-> names[i], packet_direction |-> dir, acl_type |-> AclTypeOf(acl),
             ace |-> [j \in DOMAIN acl.ace |-> parse_ace(acl.ace[j])]]]

(* Of a parsable file; the expiration is in hours from now. *)
parse_mud(file) ==
    [expiration |-> cache_validity(file),
     acllist |-> parse_device_policy(file, file.from_device_policy, "FromDevice")
                     \o parse_device_policy(file, file.to_device_policy, "ToDevice"),
     acl_override |-> <<>>]
=============================================================================
