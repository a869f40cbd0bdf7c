----------------------------- MODULE MudPipeline ----------------------------
(***************************************************************************)
(* From the bytes a vendor's server sends to what an enforcer lets pass:   *)
(* the download (MudFetch), the parser (MudParser) and the firewall rules  *)
(* (FirewallRules), put together as get_or_fetch_mud and the handlers of   *)
(* PUT and POST /mud do for one profile.  How these handlers overlap is    *)
(* the subject of MudService.                                              *)
(***************************************************************************)
EXTENDS MudParser, MudFetch

CONSTANTS
    Files,          \* MUD files a server may offer
    Revisions,      \* bound: the files it may offer later
    Overrides       \* values of acl_override a user may store

Address == "addr"   \* the address of a device that has one

(* What serde makes of the JSON of an ACL of a user: a list of ACEs with the
   variants of their types. *)
AceOK(a) ==
    /\ a.action \in {"Accept", "Deny"}
    /\ a.protocol \in AceProtocols \cup {None}
    /\ a.direction_initiated \in Directions \cup {None}
    /\ a.dnsname \in Hosts \cup {None}

AclOK(acl) ==
    /\ acl.name \in AclNames /\ acl.packet_direction \in Directions
    /\ acl.ace \in Seq(ToSet(acl.ace)) /\ \A j \in DOMAIN acl.ace : AceOK(acl.ace[j])

AclsOK(acls) == acls \in Seq(ToSet(acls)) /\ \A i \in DOMAIN acls : AclOK(acls[i])

(* What serde makes of the JSON of a MUD file. *)
FileOK(f) ==
    /\ f.cache_validity \in Int \cup {None}
    /\ f.from_device_policy \in Seq(AclNames) /\ f.to_device_policy \in Seq(AclNames)
    /\ f.acl \in Seq(ToSet(f.acl))
    /\ \A k \in DOMAIN f.acl :
          /\ f.acl[k].ace \in Seq(ToSet(f.acl[k].ace))
          /\ \A j \in DOMAIN f.acl[k].ace :
                \A ip \in {f.acl[k].ace[j].ipv4, f.acl[k].ace[j].ipv6} \ {None} :
                   {ip.dst_dnsname, ip.src_dnsname} \subseteq Hosts \cup {None}

(* What may be stored of these files. *)
Profiles ==
    {[parse_mud(f) EXCEPT !.acl_override = o] :
        f \in {g \in Files \cup Revisions : Parsable(g)}, o \in Overrides \cup {<<>>}}

ASSUME PipelineAssumption ==
    /\ None \notin Files \cup Revisions \cup Profiles /\ None # Address
    /\ \A f \in Files \cup Revisions : FileOK(f)
    /\ \A o \in Overrides : AclsOK(o)

VARIABLES
    mud,            \* the stored profile, or None
    file            \* history: the file it was parsed from; None for a local one

vars == <<fpc, enc, sent, chunk, buffer, output, mud, file>>

Forever == MaxValidity + 1      \* get_custom_mud_expiration

Init == FetchInit /\ mud = None /\ file = None

(* get_or_fetch_mud finds no profile, or an expired one (a local one never is). *)
StartFetch ==
    /\ mud = None \/ file # None
    /\ \E e \in Encodings : FetchBegin(e)
    /\ UNCHANGED <<mud, file>>

(* The new profile keeps the override of the old one. *)
Refreshed(f) ==
    [parse_mud(f) EXCEPT !.acl_override = IF mud = None THEN @ ELSE mud.acl_override]

(* parse_mud; if it fails the old profile stays. *)
Parse(f) ==
    /\ fpc = "done"
    /\ IF Parsable(f) THEN mud' = Refreshed(f) /\ file' = f ELSE UNCHANGED <<mud, file>>
    /\ FetchReturn

(* generate_empty_custom_mud_profile, for a name that is not a URL. *)
CreateLocal(o) ==
    /\ fpc = "idle" /\ mud = None
    /\ mud' = [expiration |-> Forever, acllist |-> <<>>, acl_override |-> o]
    /\ UNCHANGED <<fetchVars, file>>

(* PUT /mud. *)
PutOverride(o) ==
    /\ fpc = "idle" /\ mud # None
    /\ mud' = [mud EXCEPT !.acl_override = o]
    /\ UNCHANGED <<fetchVars, file>>

Download ==
    \/ \E n \in 1..MaxChunk : ReceiveChunk(n)
    \/ EndOfBody \/ FetchComputes \/ FetchFails

ParseAny == \E f \in (IF mud = None THEN Files ELSE Revisions) : Parse(f)

Next ==
    \/ StartFetch \/ ParseAny
    \/ Download /\ UNCHANGED <<mud, file>>
    \/ \E o \in Overrides : CreateLocal(o) \/ PutOverride(o)

Spec == Init /\ [][Next]_vars

(* The request has a timeout of 15 seconds, and computations come to an end. *)
FairSpec ==
    /\ Spec
    /\ WF_vars((FetchComputes /\ UNCHANGED <<mud, file>>) \/ ParseAny)
    /\ WF_vars((EndOfBody \/ ReceiveFails) /\ UNCHANGED <<mud, file>>)

-----------------------------------------------------------------------------
(* Every variable holds a value of its kind, and no profile is valid for less
   than an hour or, unless it is local, for more than a week. *)
PipelineTypeOK ==
    /\ fpc \in {"idle", "chunk", "decode", "flush", "done"}
    /\ enc \in Encodings \cup {Utf8} /\ sent \in 0..MaxBody
    /\ Len(chunk) <= MaxChunk /\ Len(buffer) * enc.out <= BufferSize
    /\ mud = None \/ /\ mud.expiration \in IF file = None THEN {Forever} ELSE 1..MaxValidity
                     /\ mud.acl_override \in Overrides \cup {<<>>}
                     /\ AclsOK(mud.acllist)

(* The devices of the controller: one with the profile, one that was never
   seen with an address and one without a profile. *)
Configuration ==
    LET device(id, addr, m) == [id |-> id, ipv4_addr |-> addr, ipv6_addr |-> None, mud_data |-> m]
    IN  create_configuration(<<device(1, None, mud), device(2, Address, mud), device(3, Address, None)>>)

(* What the enforcer does with a packet of the device with the profile. *)
Decision(pkt) == Decide(Configuration[1].rules, pkt)

(* acl applies to packets like pkt at its ACE number j. *)
Applies(acl, j, pkt) ==
    /\ acl.packet_direction = pkt.dir
    /\ acl.ace[j].dnsname = pkt.host
    /\ acl.ace[j].protocol \in {None, "Protocol", pkt.protocol}

(* With the ACLs of the file that the override does not replace before those
   of the override, and ACEs in the order of their ACL, the first one that
   applies decides, and a packet no ACE applies to is rejected: the order of
   accepting and denying ACEs survives the translation, and the numbering of
   rules skips none.  A device without a profile is not restricted. *)
DecidedByFirstAce ==
    fpc = "idle" =>
    LET acls == IF mud = None THEN <<>> ELSE merged_acls(mud)
        places == UNION {{<<i, j>> : j \in DOMAIN acls[i].ace} : i \in DOMAIN acls}
        before(p, q) == p[1] < q[1] \/ (p[1] = q[1] /\ p[2] < q[2])
        applies(p, pkt) == Applies(acls[p[1]], p[2], pkt)
        action(p) == acls[p[1]].ace[p[2]].action
    IN  \A pkt \in Packets :
            Decision(pkt) = "Accept" <=>
                \/ mud = None
                \/ \E p \in places : /\ applies(p, pkt) /\ action(p) = "Accept"
                                     /\ \A q \in places : applies(q, pkt) => ~before(q, p)

(* The address block of a file's ACE that counts. *)
Block(a) == IF a.ipv6 # None THEN a.ipv6 ELSE a.ipv4

(* The file accepts the traffic of pkt, of whatever protocol: an ACE of the
   first ACL of that name says so, and the user did not replace that ACL. *)
FileAccepts(f, overridden, pkt) ==
    LET names == IF pkt.dir = "FromDevice" THEN f.from_device_policy ELSE f.to_device_policy
    IN  \E i \in DOMAIN names, k \in DOMAIN f.acl :
            /\ names[i] \notin overridden
            /\ f.acl[k].name = names[i] /\ \A l \in 1..(k - 1) : f.acl[l].name # names[i]
            /\ \E j \in DOMAIN f.acl[k].ace :
                  LET a == f.acl[k].ace[j]
                  IN  /\ a.forwarding = "accept" /\ Block(a) # None
                      /\ pkt.host \in {Block(a).dst_dnsname, Block(a).src_dnsname}

(* Nothing is let through that neither the vendor nor the user accepted: a
   packet passes only if an ACE of the user's override accepts it, or if an
   ACE of the file accepts traffic with that host in that direction.  What is
   lost on the way is the protocol of the file: a block with a DNS name always
   replaces Tcp or Udp, and a protocol number becomes "all protocols". *)
AcceptedIsPermitted ==
    fpc = "idle" /\ mud # None =>
    LET o == mud.acl_override
        overridden == {o[i].name : i \in DOMAIN o}
    IN  \A pkt \in Packets :
            Decision(pkt) = "Accept" =>
                \/ \E i \in DOMAIN o : \E j \in DOMAIN o[i].ace :
                      o[i].ace[j].action = "Accept" /\ Applies(o[i], j, pkt)
                \/ file # None /\ FileAccepts(file, overridden, pkt)
=============================================================================
