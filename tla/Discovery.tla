----------------------------- MODULE Discovery -----------------------------
(***************************************************************************)
(* The selection of the dongle's nodes by USB topology, made again before  *)
(* every open: src/src/discovery/mod.rs and reopen.rs.  Nodes appear and   *)
(* vanish one by one, as the kernel enumerates and drops them.             *)
(*                                                                         *)
(* A USB device is its path from the bus.  Dongles and foreign devices     *)
(* share the hubs, which may be of the very type a dongle has inside.      *)
(***************************************************************************)
EXTENDS Naturals, FiniteSets, SequencesExt, Functions

CONSTANTS
    Dongles, Foreigns,   \* the owners of devices
    VideoDevice,         \* the device of an owner's video function
    SerialDevice,        \* the device of its serial function
    PeerDevice,          \* the device behind the peer of the port a device is in
    Devnum,              \* device numbers, 0 where they could not be read
    InternalHubs,        \* the hubs of the type a dongle has inside
    Nothing,
    MaxUnprobed          \* bound: probes that fail in one attempt

Owners == Dongles \cup Foreigns
Functions == {"capture", "metadata", "serial"}

\* A node, its function as the kernel knows it, and what it is a part of.
Nodes == [owner: Owners, function: Functions]
            \ [owner: Foreigns, function: {"metadata"}]

VARIABLES
    nodes,     \* the nodes there are now
    cards,     \* the owners whose sound card is there
    attempt    \* the last resolution, Nothing when the nodes changed since

discoveryVars == <<nodes, cards, attempt>>

-----------------------------------------------------------------------------
(* The topology                                                            *)

UsbOf(node) == IF node.function = "serial" THEN SerialDevice[node.owner]
               ELSE VideoDevice[node.owner]

VideoId(usb) == usb \in {VideoDevice[d] : d \in Dongles}
SerialId(usb) == usb \in {SerialDevice[d] : d \in Dongles}
InternalHubId(usb) == usb \in InternalHubs

Busnum(usb) == Head(usb)

-----------------------------------------------------------------------------
(* The evidence rules                                                      *)

SameDevice(a, b) ==
    \/ a = b
    \/ Busnum(a) = Busnum(b) /\ Devnum[a] = Devnum[b] /\ Devnum[a] # 0

PortPeer(video, serial) ==
    video \in DOMAIN PeerDevice /\ IsPrefix(PeerDevice[video], serial)

\* Mutation of InternalHub: any depth below the hub will do.
InternalHubAbove(video, serial) ==
    /\ VideoId(video) /\ SerialId(serial)
    /\ \E n \in 1..Len(video) :
          IsPrefix(SubSeq(video, 1, n), serial) /\ InternalHubId(SubSeq(video, 1, n))

\* The nearest common device is the parent of both, and the dongle's own hub.
InternalHub(video, serial) ==
    /\ VideoId(video) /\ SerialId(serial)
    /\ Front(video) = Front(serial) /\ InternalHubId(Front(video))

\* A device number names one device of its bus.  A peer port and a hub around
\* both halves join those of one dongle, and one of them joins each.
ASSUME TopologyAssumption ==
    /\ IsFiniteSet(Owners) /\ DOMAIN VideoDevice = Owners /\ DOMAIN SerialDevice = Owners
    /\ Nothing \notin Nodes \cup (Nodes \X Nodes)
    /\ \A c, d \in Owners :
          /\ SameDevice(VideoDevice[c], VideoDevice[d]) => c = d
          /\ SerialDevice[c] = SerialDevice[d] => c = d
          /\ SameDevice(VideoDevice[c], SerialDevice[d]) => c = d /\ d \in Dongles
          /\ PortPeer(VideoDevice[c], SerialDevice[d]) => c = d /\ d \in Dongles
    /\ \A c, d \in Dongles :
          Front(VideoDevice[c]) = Front(SerialDevice[d]) => c = d
    /\ \A d \in Dongles :
          \/ SameDevice(VideoDevice[d], SerialDevice[d])
          \/ PortPeer(VideoDevice[d], SerialDevice[d])
          \/ /\ Front(VideoDevice[d]) = Front(SerialDevice[d])
             /\ Front(VideoDevice[d]) \in InternalHubs

\* evidence_for, of all the devices there may be.
Evidence ==
    {p \in Range(VideoDevice) \X Range(SerialDevice) :
        SameDevice(p[1], p[2]) \/ PortPeer(p[1], p[2]) \/ InternalHub(p[1], p[2])}

-----------------------------------------------------------------------------
(* inventory                                                               *)

Videos == {n \in nodes : n.function # "serial"}
Serials == {n \in nodes : n.function = "serial"}

Candidates == {p \in Videos \X Serials : <<UsbOf(p[1]), UsbOf(p[2])>> \in Evidence}

\* Only the nodes of a device in some candidate pair are opened.
Probed == {v \in Videos : \E p \in Candidates : UsbOf(p[1]) = UsbOf(v)}

\* A node whose probe says nothing stays eligible unless a sibling on the same
\* device is known to be the capture node.
Eligible(answered) ==
    LET confirmed == {v \in answered : v.function = "capture"}
        siblings == {UsbOf(v) : v \in confirmed}
    IN confirmed \cup {v \in Videos \ answered : UsbOf(v) \notin siblings}

\* The pairs of inventory when the probes of unprobed fail.
Pairs(unprobed) ==
    LET eligible == Eligible(Probed \ unprobed)
    IN {p \in Candidates : p[1] \in eligible}

-----------------------------------------------------------------------------
(* discover, with the constraint the user gave for the other node          *)

TheOnly(pairs) == IF Cardinality(pairs) = 1 THEN CHOOSE p \in pairs : TRUE ELSE Nothing

\* NodeResolver::resolve for a node not given explicitly: the only pair, or the
\* only one of the node that was given.  Nothing stands for the errors: no nodes,
\* no pair, several, or every probe denied.
Selected(kind, given, pairs) ==
    LET pair == TheOnly({p \in pairs : given # Nothing => given \in {p[1], p[2]}})
    IN IF pair = Nothing THEN Nothing ELSE pair[IF kind = "video" THEN 1 ELSE 2]

\* audio_for and CardResolver::resolve: the card of the capture device itself.
CardOf(usb) ==
    TheOnly({c \in cards : SameDevice(usb, VideoDevice[c])})

-----------------------------------------------------------------------------
Unplugged == nodes = {} /\ cards = {}
DiscoveryInit == Unplugged /\ attempt = Nothing

Appear ==
    /\ \/ \E n \in Nodes \ nodes : nodes' = nodes \cup {n} /\ UNCHANGED cards
       \/ \E c \in DOMAIN VideoDevice \ cards :
             /\ \E n \in nodes : n.owner = c
             /\ cards' = cards \cup {c}
             /\ UNCHANGED nodes
    /\ attempt' = Nothing

Vanish ==
    /\ \/ \E n \in nodes : nodes' = nodes \ {n} /\ UNCHANGED cards
       \/ \E c \in cards : cards' = cards \ {c} /\ UNCHANGED nodes
    /\ attempt' = Nothing

\* Any failure of a probe, a refusal included.
ResolveNode ==
    /\ attempt = Nothing
    /\ \E unprobed \in {s \in SUBSET Probed : Cardinality(s) <= MaxUnprobed} :
          LET pairs == Pairs(unprobed)
          IN \E kind \in {"video", "serial"} :
             \E given \in {Nothing} \cup (IF kind = "video" THEN Serials ELSE Videos) :
                attempt' = [given |-> given, unprobed |-> unprobed,
                            node |-> Selected(kind, given, pairs)]
    /\ UNCHANGED <<nodes, cards>>

\* The card is looked for at the directory of a device selected earlier.
ResolveCard ==
    /\ attempt = Nothing
    /\ \E d \in Dongles :
          /\ \E n \in Videos : n.owner = d
          /\ attempt' = [card |-> CardOf(VideoDevice[d]), of |-> d]
    /\ UNCHANGED <<nodes, cards>>

DiscoveryNext == Appear \/ Vanish \/ ResolveNode \/ ResolveCard

DiscoverySpec == DiscoveryInit /\ [][DiscoveryNext]_discoveryVars

-----------------------------------------------------------------------------
(* Properties                                                              *)

Whole == {d \in Dongles : {[owner |-> d, function |-> f] : f \in {"capture", "serial"}} \subseteq nodes}

Resolved == attempt # Nothing /\ "node" \in DOMAIN attempt

\* "Refusing to guess": whatever has been enumerated so far, what is opened is
\* a part of the only whole dongle there is, or of the one whose other half the
\* user named; it is the capture node unless its probe gave no answer; and when
\* there is just one whole dongle it is found, though the probe of its metadata
\* node fails.  A sound card is that of the same dongle.
NeverGuesses ==
    /\ Resolved /\ attempt.node # Nothing =>
          /\ attempt.node.owner \in Dongles
          /\ attempt.node.function = "metadata" => attempt.node \in attempt.unprobed
          /\ IF attempt.given = Nothing THEN Whole \subseteq {attempt.node.owner}
             ELSE attempt.node.owner = attempt.given.owner
    /\ Resolved /\ attempt.node = Nothing =>
          \/ attempt.given # Nothing \/ Cardinality(Whole) # 1
          \/ \E n \in attempt.unprobed : n.owner \notin Whole \/ n.function = "capture"
    /\ attempt # Nothing /\ ~Resolved => attempt.card \in {Nothing, attempt.of}

=============================================================================
