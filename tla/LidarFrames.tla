---------------------------- MODULE LidarFrames ----------------------------
(***************************************************************************)
(* The lidar driver ldlidar_stl_ros2: from packets on the serial line to   *)
(* scans on the topic.  Two threads: the reader thread parses packets,     *)
(* collects their points and cuts them into frames of one turn (LiPkg);    *)
(* main() fetches the newest frame ten times a second and publishes it.    *)
(* A frame is handed over in laser_scan_data_ and is_frame_ready_, each    *)
(* under a mutex of its own.                                               *)
(*                                                                         *)
(* A packet is its number: the angle it looks at is the number modulo the  *)
(* Sectors of a turn, at constant speed.  Its twelve points stay together. *)
(* The first sector is where angles are below 20 degrees, the last one     *)
(* where they are above 340.                                               *)
(***************************************************************************)
EXTENDS Integers, Sequences, FiniteSets

CONSTANTS
  Sectors,      \* packets of a turn
  MaxPackets,   \* bound: packets the lidar sends
  MaxLost,      \* bound: packets that do not arrive
  MaxBurst      \* packets in one read of the serial line

ASSUME LidarAssumption ==
  /\ Sectors \in Nat \ {0, 1} /\ MaxBurst \in Nat \ {0}
  /\ MaxPackets \in Nat /\ MaxLost \in Nat

VARIABLES
  sent,         \* the packets numbered below it have been sent
  lost,         \* how many of them were lost
  lastLost,     \* history: the latest of those
  synced,       \* last_pkg_timestamp_ is set
  frame_tmp,    \* frame_tmp_: points collected
  first_frame,  \* first_frame_
  laser,        \* laser_scan_data_
  ready,        \* is_frame_ready_
  heard,        \* is_poweron_comm_normal_
  rpc,          \* where the reader thread is
  mpc,          \* where main is
  made,         \* history: frames handed over
  got,          \* history: the number of the frame main fetched last
  times         \* history: how often it fetched that one

collecting == <<sent, lost, lastLost, synced, frame_tmp, first_frame>>
fetching   == <<mpc, got, times>>
vars == <<collecting, laser, ready, heard, rpc, made, fetching>>

(* The types; and that frame_tmp_ never holds more than two turns.         *)
TypeOK ==
  /\ sent \in Nat /\ lost \in 0..MaxLost
  /\ lastLost \in Nat \cup {-1} /\ lastLost < sent /\ synced \in BOOLEAN
  /\ frame_tmp \in Seq(Nat) /\ Len(frame_tmp) <= 2 * Sectors /\ laser \in Seq(Nat)
  /\ first_frame \in BOOLEAN /\ ready \in BOOLEAN /\ heard \in BOOLEAN
  /\ rpc \in {"read", "flag"} /\ mpc \in {"connect", "check", "reset", "copy", "exited"}
  /\ made \in Nat /\ got \in Nat /\ times \in Nat

(* The driver is started while the lidar turns.                            *)
Init ==
  /\ sent \in 0..(Sectors - 1) /\ lost = 0 /\ lastLost = -1
  /\ synced = FALSE /\ frame_tmp = <<>> /\ first_frame = TRUE
  /\ laser = <<>> /\ ready = FALSE /\ heard = FALSE
  /\ rpc = "read" /\ mpc = "connect"
  /\ made = 0 /\ got = 0 /\ times = 0
-----------------------------------------------------------------------------
(* The reader thread.                                                      *)

(* Parse: what arrives of the packets numbered n..m, in their order.  One  *)
(* is missing that did not arrive, has a wrong checksum or does not fit    *)
(* the speed.  The first one ever only sets the time.                      *)
Arrivals(n, m) ==
  {p \in UNION {[1..k -> n..m] : k \in 0..(m - n + 1)} :
     \A i, j \in DOMAIN p : i < j => p[i] < p[j]}

Missing(packets, n, m) == (n..m) \ {packets[i] : i \in DOMAIN packets}

Parsed(packets) == IF synced \/ packets = <<>> THEN packets ELSE Tail(packets)

(* AssemblePacket: where the collected points f are cut, by how many lie   *)
(* before.  The angle passes zero, or two turns went by without that.      *)
Wrap(p, q) == p % Sectors = Sectors - 1 /\ q % Sectors = 0
Passages(f) == {c \in 1..(Len(f) - 1) : Wrap(f[c], f[c + 1])}

(* Mutant: points are collected until the angle passes zero.               *)
NoOverflow(f) == {}

Overflow(f) == {2 * Sectors + 1} \cap 1..Len(f)

(* Mutant: nothing is cut before there are more than two turns to cut.     *)
LateCuts(f) == IF Overflow(f) = {} THEN {} ELSE Passages(f) \cup Overflow(f)

Cuts(f) == Passages(f) \cup Overflow(f)
IsCut(f, c) == c \in Cuts(f) /\ \A d \in Cuts(f) : c <= d

Rest(f, c) == SubSeq(f, c + 1, Len(f))

(* More points than 1.4 turns are not a frame.                             *)
TooLong(c) == 5 * c > 7 * Sectors

(* Mutant: the points before the first passage of zero make a frame, too.  *)
UseFirstFrame(c) == ~TooLong(c)

IsFrame(c) == ~TooLong(c) /\ ~first_frame

Collect(f) ==
  /\ frame_tmp' = f
  /\ UNCHANGED <<first_frame, laser, made, rpc>>

Discard(f, c) ==
  /\ frame_tmp' = Rest(f, c)
  /\ first_frame' = (first_frame /\ TooLong(c))
  /\ UNCHANGED <<laser, made, rpc>>

(* Mutant: SetFrameReady is not called.                                    *)
ForgetFlag(f, c) ==
  /\ laser' = SubSeq(f, 1, c) /\ made' = made + 1
  /\ frame_tmp' = Rest(f, c)
  /\ first_frame' = FALSE
  /\ UNCHANGED rpc

(* SetLaserScanData.                                                       *)
HandOver(f, c) ==
  /\ laser' = SubSeq(f, 1, c) /\ made' = made + 1
  /\ frame_tmp' = Rest(f, c)
  /\ first_frame' = FALSE
  /\ rpc' = "flag"

AssemblePacket(f) ==
  \/ Cuts(f) = {} /\ Collect(f)
  \/ \E c \in Cuts(f) : /\ IsCut(f, c)
                        /\ \/ ~IsFrame(c) /\ Discard(f, c)
                           \/ IsFrame(c) /\ HandOver(f, c)

(* RxThreadProc and CommReadCallback: one read, one frame at most.  A      *)
(* packet that does not fit the speed was heard nevertheless.              *)
Read ==
  /\ rpc = "read"
  /\ sent < MaxPackets
  /\ sent' \in (sent + 1)..(sent + MaxBurst)
  /\ \E packets \in Arrivals(sent, sent' - 1) :
       LET gone == Missing(packets, sent, sent' - 1)
       IN  /\ lost' = lost + Cardinality(gone) /\ lost' <= MaxLost
           /\ IF gone = {} THEN UNCHANGED lastLost
              ELSE lastLost' \in gone /\ \A q \in gone : q <= lastLost'
           /\ synced' = (synced \/ packets # <<>>)
           /\ heard' \in {heard \/ packets # <<>>, TRUE}
           /\ AssemblePacket(frame_tmp \o Parsed(packets))
  /\ UNCHANGED <<ready, fetching>>

(* SetFrameReady.                                                          *)
Flag ==
  /\ rpc = "flag"
  /\ ready' = TRUE
  /\ rpc' = "read"
  /\ UNCHANGED <<collecting, laser, heard, made, fetching>>
-----------------------------------------------------------------------------
(* main().                                                                 *)

(* WaitLidarCommConnect: a packet within three seconds, or main gives up.  *)
Connect ==
  /\ mpc = "connect"
  /\ \/ heard /\ heard' = FALSE /\ mpc' = "check"
     \/ ~heard /\ mpc' = "exited" /\ UNCHANGED heard
  /\ UNCHANGED <<collecting, laser, ready, rpc, made, got, times>>

(* GetLaserScanData: IsFrameReady ...                                      *)
Check ==
  /\ mpc = "check" /\ ready
  /\ mpc' = "reset"
  /\ UNCHANGED <<collecting, laser, ready, heard, rpc, made, got, times>>

(* Mutant: the flag is never taken back.                                   *)
ForgetReset ==
  /\ mpc = "reset"
  /\ mpc' = "copy"
  /\ UNCHANGED <<collecting, laser, ready, heard, rpc, made, got, times>>

(* ... ResetFrameReady ...                                                 *)
ResetReady ==
  /\ mpc = "reset"
  /\ ready' = FALSE
  /\ mpc' = "copy"
  /\ UNCHANGED <<collecting, laser, heard, rpc, made, got, times>>

(* ... and the copy, which main publishes.                                 *)
Copy ==
  /\ mpc = "copy"
  /\ got' = made
  /\ times' = IF got = made THEN times + 1 ELSE 1
  /\ mpc' = "check"
  /\ UNCHANGED <<collecting, laser, ready, heard, rpc, made>>

(* No frame: main waits for the next round.  Or it has given up.           *)
Wait ==
  /\ (mpc = "check" /\ ~ready) \/ mpc = "exited"
  /\ UNCHANGED vars

Next == Read \/ Flag \/ Connect \/ Check \/ ResetReady \/ Copy \/ Wait

Spec == Init /\ [][Next]_vars

(* Both threads run; the lidar need not send.                              *)
Fairness == WF_vars(Flag) /\ WF_vars(Connect \/ Check \/ ResetReady \/ Copy)

FairSpec == Spec /\ Fairness
-----------------------------------------------------------------------------
(* A frame shows the whole pipe once.                                      *)
WholeTurn(f) == f = [i \in 1..Sectors |-> f[1] + i - 1]

(* The first points make no frame, since they may begin anywhere; and      *)
(* losses on the line do not get the cutting out of step for long.         *)
(* Without losses, and from a turn after the latest on, each frame is one  *)
(* whole turn, although others were cut in the wrong place or discarded.   *)
Healed ==
  laser # <<>> /\ (lastLost = -1 \/ laser[1] > lastLost + Sectors) => WholeTurn(laser)

(* A frame is handed over less than a turn after the packet that completes *)
(* it, the first of the next frame, was sent: also when reads bring        *)
(* several packets, only one frame is cut per read, and frames were thrown *)
(* away.                                                                   *)
Fresh == [][made' # made => sent' - frame_tmp'[1] < Sectors]_vars

(* Why it holds when the reader thread keeps up, so that a read brings no  *)
(* more than half a turn: a passage of zero stays among the points that    *)
(* are collected only if it is of the latest read.                         *)
ShortReads == 2 * MaxBurst <= Sectors + 1

LagInv ==
  /\ Len(frame_tmp) <= 2 * Sectors
  /\ Passages(frame_tmp) = {} \/ sent - frame_tmp[1] < MaxBurst

(* Flag and data are guarded separately, so main may fetch a frame again,  *)
(* as often as the flag can be pending, set and taken back.  But a lidar   *)
(* that fell silent does not go on being published, which                  *)
(* obstacle_detection would take for a lidar that works.                   *)
RepeatsBounded == times <= 3

(* Why it holds: the copies of the newest frame still to come.             *)
Pending == (IF rpc = "flag" THEN 1 ELSE 0) + (IF ready THEN 1 ELSE 0)
             + (IF mpc = "copy" THEN 1 ELSE 0)

RepeatInv ==
  /\ RepeatsBounded
  /\ mpc = "reset" => ready
  /\ got <= made
  /\ got = made => times + Pending <= 3

(* No frame is overlooked: of a frame that main has not fetched, the flag  *)
(* is up or will be, or main is about to copy.  A flag taken back after    *)
(* the copy would lose the frame that came in between.                     *)
NoneOverlooked == got < made => rpc = "flag" \/ ready \/ mpc = "copy"

(* The newest frame is fetched, although main takes back a flag that may   *)
(* be set for a frame it has not seen.                                     *)
NewestArrives ==
  \A n \in 1..(MaxPackets \div 2) :
    (made = n) ~> (got >= n \/ mpc = "exited")
=============================================================================
