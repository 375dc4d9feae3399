----------------------------- MODULE ScoFraming -----------------------------
(***************************************************************************)
(* The synchronous framers: the two halves of src/src/common/sco_usb.c     *)
(* that turn the isochronous packets of the host into SCO packets of the   *)
(* controller and back, as src/src/driver/endpoints.c calls them, always   *)
(* under the controller lock.  When a chunk leaves the OUT ring and when   *)
(* an IN transfer is filled is the business of ScoPacing; here both may    *)
(* happen at any time.                                                     *)
(*                                                                         *)
(* OUT.  The host's SCO packets are one stream of bytes, and a byte is its *)
(* position in it; the host cuts the stream into isochronous packets as it *)
(* likes.  A voice byte never looks like half a connection handle; one     *)
(* that is taken for a length reads as one.                                *)
(*                                                                         *)
(* IN.  A voice byte of the controller is the packet that brought it and   *)
(* its place there.                                                        *)
(*                                                                         *)
(* The two halves share nothing but the flush, so a behaviour looks at one *)
(* of them.  The statistics are left out.                                  *)
(*                                                                         *)
(* A definition BugXxx is a variant of the next definition with a          *)
(* plausible mistake, used only to show which property notices it.         *)
(***************************************************************************)
EXTENDS Naturals, Sequences, FiniteSetsExt

CONSTANTS
  Links,        \* connection handles
  NoLink,       \* SCO_USB_NO_HANDLE
  Garbage,      \* the handle read from bytes that are no header
  Sent,         \* the SCO packets of the host, in order: link, voice bytes
  OutSlots,     \* SCO_USB_OUT_RING_SLOTS
  MaxIso,       \* SCO_USB_MAX_ISO_PACKET
  Cuts,         \* lengths of the isochronous packets the host cuts
  Air,          \* the SCO packets of the controller: link, bytes, whole or not
  SourceDepth,  \* depth of the bridge's SCO FIFO
  Settings,     \* wMaxPacketSize of the alternate settings
  Capacities,   \* room the host's transfers leave for a packet
  MaxStreams    \* bound: voice streams ended

ASSUME FramingAssumption ==
  /\ NoLink \notin Links /\ Garbage \notin Links \cup {NoLink}
  /\ Sent \in Seq([link: Links, voice: Nat])
  /\ Air \in Seq([link: Links, voice: Nat, whole: BOOLEAN])
  /\ OutSlots \in Nat \ {0} /\ SourceDepth \in Nat \ {0}
  /\ Settings \subseteq Nat /\ Capacities \subseteq Nat \ {0}
  /\ MaxIso \in Nat /\ Cuts \subseteq 1..MaxIso /\ MaxStreams \in Nat

VARIABLES
  dir,      \* the half this behaviour looks at
  flushes,  \* voice streams ended
  next,     \* next byte the host has to send
  chunks,   \* Out.Ring, oldest first
  packet,   \* Out.Packet[0 .. Have - 1]
  resync,   \* Out.Resync
  last,     \* Out.LastHandle
  emitted,  \* packets emitted in this stream
  drop,     \* what the last drop of this stream left: from where no byte is
            \* lost, the link last heard then, and whether one was early
  aligned,  \* packets that begin an isochronous packet
  arrived,  \* packets of the controller that reached the bridge
  source,   \* the bridge's SCO FIFO
  fifo,     \* In.Fifo: voice bytes
  field,    \* In.HandleField: the packet it was taken from, 0 for none
  frame,    \* In.Frame[FrameOffset .. FrameLength - 1]
  setting,  \* wMaxPacketSize of the stream
  got       \* bytes the host received in this stream

outVars == <<next, chunks, packet, resync, last, emitted, drop, aligned>>
inVars  == <<arrived, source, fifo, field, frame, setting, got>>
framingVars == <<dir, flushes, outVars, inVars>>

Header == 3

(***************************************************************************)
(* The bytes of the host.                                                  *)
(***************************************************************************)
Start[k \in 1..(Len(Sent) + 1)] ==
  IF k = 1 THEN 1 ELSE Start[k - 1] + Header + Sent[k - 1].voice

PacketOf(p) == CHOOSE k \in 1..Len(Sent) : Start[k] <= p /\ p < Start[k + 1]
PlaceOf(p)  == p - Start[PacketOf(p)]

HandleOf(p, q) ==
  IF PlaceOf(p) = 0 /\ q = p + 1 THEN Sent[PacketOf(p)].link ELSE Garbage

LengthAt(p) == IF PlaceOf(p) = 2 THEN Sent[PacketOf(p)].voice ELSE 1

NoDrop(p) == [from |-> p, dropped |-> FALSE, link |-> NoLink, early |-> FALSE]

FramingInit ==
  /\ dir \in {"out", "in"} /\ flushes = 0
  /\ next = 1 /\ chunks = << >> /\ packet = << >> /\ resync = FALSE
  /\ last = NoLink /\ emitted = << >> /\ drop = NoDrop(1) /\ aligned = {}
  /\ arrived = 0 /\ source = << >> /\ fifo = << >> /\ field = 0
  /\ frame = << >> /\ setting \in Settings /\ got = << >>
  /\ dir = "out" => setting = Min(Settings)

(***************************************************************************)
(* ScoUsbOutPush: one isochronous packet of n bytes.  A full ring drops    *)
(* its oldest chunk, and the packet being put together with it.            *)
(***************************************************************************)
BugNoResync(n) ==
  /\ chunks' = Append(IF Len(chunks) = OutSlots THEN Tail(chunks) ELSE chunks,
                      [from |-> next, n |-> n])
  /\ UNCHANGED <<packet, resync>>

Enqueue(n) ==
  LET full == Len(chunks) = OutSlots IN
  /\ chunks' = Append(IF full THEN Tail(chunks) ELSE chunks,
                      [from |-> next, n |-> n])
  /\ packet' = IF full THEN << >> ELSE packet
  /\ resync' = (resync \/ full)

Push(n) ==
  /\ dir = "out"
  /\ next + n <= Start[Len(Sent) + 1]
  /\ Enqueue(n)
  /\ next' = next + n
  /\ drop' = IF Len(chunks) < OutSlots THEN drop
             ELSE [from |-> chunks[1].from + chunks[1].n, dropped |-> TRUE,
                   link |-> last, early |-> drop.early \/ last = NoLink]
  /\ aligned' = IF PlaceOf(next) = 0 /\ n >= 2
                THEN aligned \cup {PacketOf(next)} ELSE aligned
  /\ UNCHANGED <<dir, flushes, last, emitted, inVars>>

(***************************************************************************)
(* ScoUsbOutRelease: the oldest chunk is due.  Chunks due together are     *)
(* released one after the other.                                           *)
(***************************************************************************)
BugNeverResynced(chunk) == resync

Skips(chunk) ==
  /\ resync /\ last # NoLink
  /\ chunk.n < 2 \/ HandleOf(chunk.from, chunk.from + 1) # last

StillResyncing(chunk) == resync /\ Skips(chunk)

\* DeckBtScoEmit: one packet to the bridge.
Emit(out, pk) == Append(out, pk)

Reassemble(st, p) ==
  LET pk == Append(st.packet, p) IN
  IF Len(pk) >= Header /\ Len(pk) = Header + LengthAt(pk[3])
  THEN [packet |-> << >>, last |-> HandleOf(pk[1], pk[2]),
        emitted |-> Emit(st.emitted, pk)]
  ELSE [st EXCEPT !.packet = pk]

Reassembled[n \in 0..MaxIso] ==
  IF n = 0 THEN [packet |-> packet, last |-> last, emitted |-> emitted]
  ELSE Reassemble(Reassembled[n - 1], chunks[1].from + n - 1)

Release ==
  /\ dir = "out" /\ chunks # << >>
  /\ LET chunk == chunks[1]
         st    == Reassembled[IF Skips(chunk) THEN 0 ELSE chunk.n]
     IN /\ packet' = st.packet /\ last' = st.last /\ emitted' = st.emitted
        /\ resync' = StillResyncing(chunk)
  /\ chunks' = Tail(chunks)
  /\ UNCHANGED <<dir, flushes, next, drop, aligned, inVars>>

(***************************************************************************)
(* The controller's packets reach the bridge, which keeps the newest.      *)
(***************************************************************************)
Arrive ==
  /\ dir = "in" /\ arrived < Len(Air)
  /\ arrived' = arrived + 1
  /\ source' = Append(IF Len(source) = SourceDepth THEN Tail(source)
                      ELSE source, arrived + 1)
  /\ UNCHANGED <<dir, flushes, outVars, fifo, field, frame, setting, got>>

\* ScoUsbInPayloadSize.
Payload(m) ==
  IF m < 4 THEN 0
  ELSE IF m >= MaxIso THEN m - Header
  ELSE 3 * m - Header

\* ScoUsbInAccept: packet k joins the voice that waits.
VoiceOf(k) == [i \in 1..Air[k].voice |-> <<k, i>>]

BugSplices(in, k) ==
  [field |-> k, fifo |-> in.fifo \o VoiceOf(k)]

Accept(in, k) ==
  IF ~Air[k].whole THEN in
  ELSE [field |-> k,
        fifo  |-> IF in.field # 0 /\ Air[in.field].link # Air[k].link
                  THEN VoiceOf(k) ELSE in.fifo \o VoiceOf(k)]

\* The pulls of ScoUsbInFill: packets until one payload waits.
Pulled[n \in 0..Len(source)] ==
  IF n = 0 THEN [field |-> field, fifo |-> fifo]
  ELSE Accept(Pulled[n - 1], source[n])

Pulls(payload) ==
  Min({n \in 0..Len(source) :
         n = Len(source) \/ Len(Pulled[n].fifo) >= payload})

(***************************************************************************)
(* ScoUsbInFill: one isochronous packet of an IN transfer with room for c  *)
(* bytes.  A new packet is framed only when the last one was taken whole.  *)
(***************************************************************************)
Framed(in, payload) ==
  [i \in 1..Header |-> <<in.field, 0>>] \o SubSeq(in.fifo, 1, payload)

Fill(c) ==
  LET payload == Payload(setting)
      pulls   == IF frame = << >> THEN Pulls(payload) ELSE 0
      in      == Pulled[pulls]
      frames  == frame = << >> /\ Len(in.fifo) >= payload
      now     == IF frames THEN Framed(in, payload) ELSE frame
      n       == Min({Len(now), setting, c})
  IN /\ dir = "in" /\ payload > 0
     /\ source' = SubSeq(source, pulls + 1, Len(source))
     /\ field' = in.field
     /\ fifo' = IF frames THEN SubSeq(in.fifo, payload + 1, Len(in.fifo))
                ELSE in.fifo
     /\ frame' = SubSeq(now, n + 1, Len(now))
     /\ got' = got \o SubSeq(now, 1, n)
     /\ UNCHANGED <<dir, flushes, outVars, arrived, setting>>

\* DeckBtScoFillIn: the isochronous packets of a transfer, one after the other.
FillIn == \E c \in Capacities : Fill(c)

(***************************************************************************)
(* The ends of a stream.  DeckBtScoFlush starts both framers again; the    *)
(* next stream begins with a whole packet.                                 *)
(***************************************************************************)
Flush ==
  /\ flushes < MaxStreams
  /\ flushes' = flushes + 1
  /\ next' = Min({Start[k] : k \in 1..(Len(Sent) + 1)} \ 1..(next - 1))
  /\ chunks' = << >> /\ packet' = << >> /\ resync' = FALSE
  /\ last' = NoLink /\ emitted' = << >> /\ drop' = NoDrop(next')
  /\ fifo' = << >> /\ field' = 0 /\ frame' = << >> /\ got' = << >>
  /\ UNCHANGED <<dir, aligned, arrived>>

\* DeckBtEvtDeviceReset: the bridge forgets its voice as well.
UsbReset ==
  /\ Flush
  /\ source' = << >>
  /\ UNCHANGED setting

\* DeckBtEvtEndpointsConfigure: the size of the synchronous endpoints that are
\* configured, or none of them where they are only released.  What waits in
\* the bridge belongs to the next stream.
SelectSetting(size) ==
  /\ dir = "out" => size = setting
  /\ Flush
  /\ setting' = size
  /\ UNCHANGED source

FramingNext ==
  \/ \E n \in Cuts : Push(n)
  \/ Release
  \/ Arrive
  \/ FillIn
  \/ UsbReset
  \/ \E size \in Settings : SelectSetting(size)

FramingSpec == FramingInit /\ [][FramingNext]_framingVars

-----------------------------------------------------------------------------
(***************************************************************************)
(* Properties                                                              *)
(***************************************************************************)
FramingTypeOK ==
  /\ dir \in {"out", "in"} /\ flushes \in 0..MaxStreams
  /\ next \in 1..Start[Len(Sent) + 1]
  /\ Len(chunks) <= OutSlots /\ resync \in BOOLEAN
  /\ last \in Links \cup {NoLink, Garbage}
  /\ aligned \subseteq 1..Len(Sent)
  /\ arrived \in 0..Len(Air) /\ field \in 0..arrived
  /\ Len(source) <= SourceDepth /\ setting \in Settings

Whole(k) == [i \in 1..(Header + Sent[k].voice) |-> Start[k] + i - 1]

\* However the host cuts its packets and however the ring loses chunks in
\* between, what reaches the controller are packets the host sent, whole and
\* in order: what follows a loss is never spliced onto what came before
\* (sco_usb.h, "a lost header cannot desynchronise the stream for good").
\* Not claimed when a chunk is lost before the first packet of the stream
\* is through: there is no link to wait for then.
OutWhole ==
  \/ drop.early
  \/ /\ \A i \in DOMAIN emitted :
          \E k \in 1..Len(Sent) : emitted[i] = Whole(k)
     /\ \A i, j \in DOMAIN emitted : i < j => emitted[i][1] < emitted[j][1]

\* Waiting for the link last heard ends: from the first packet of that link
\* that begins an isochronous packet behind the loss, or from the start of a
\* stream without one, every packet that has left the ring was emitted.
Behind(k) == Start[k + 1] <= (IF chunks = << >> THEN next ELSE chunks[1].from)

Restarts(k) ==
  /\ drop.from <= Start[k]
  /\ drop.dropped => k \in aligned /\ Sent[k].link = drop.link

AfterDropHeard ==
  \A j, k \in 1..Len(Sent) :
     (~drop.early /\ j <= k /\ Restarts(j) /\ Behind(k)) =>
        \E i \in 1..Len(emitted) : emitted[i] = Whole(k)

\* The host's bytes are whole packets of the geometry of the setting.  Each
\* carries voice of one link in the order it came, under the header of the
\* controller packet that brought the last of it, and voice is missing in
\* between only from whole packets or where the link changed.
Follows(a, b) ==
  \/ b = <<a[1], a[2] + 1>>
  \/ /\ a[1] < b[1] /\ b[2] = 1
     /\ \/ a[2] = Air[a[1]].voice
        \/ \E k \in a[1]..b[1] : Air[k].link # Air[a[1]].link

IsVoice(b) == b[2] # 0

InFaithful ==
  LET size == Header + Payload(setting) IN
  /\ \A i \in 1..Len(got) : IsVoice(got[i]) <=> (i - 1) % size >= Header
  /\ \A i, j \in 1..Len(got) :
        /\ i < j /\ IsVoice(got[i]) /\ IsVoice(got[j])
        /\ \A x \in (i + 1)..(j - 1) : ~IsVoice(got[x])
        => Follows(got[i], got[j])
  /\ \A i \in 1..Len(got) :
        (i - 1) % size = 0 /\ i + size - 1 <= Len(got) =>
          /\ got[i + size - 1][1] = got[i][1]
          /\ \A x \in i..(i + size - 1) :
                Air[got[x][1]].link = Air[got[i][1]].link
=============================================================================
