-------------------------------- MODULE Wire --------------------------------
(***************************************************************************)
(* The two formats in which nodes tell others about members: the datagrams *)
(* of SWIM (swim_message.cpp), written most significant byte first, and    *)
(* the answer to CLUSTER_INFO, written by coordinator.cpp and read by      *)
(* topology_manager.cpp in the byte order of the machine.  A reader takes  *)
(* the bytes and an offset and returns the value and the offset behind it, *)
(* or Bad when the bytes do not suffice; from Bad on, every reader fails.  *)
(***************************************************************************)
EXTENDS Integers, Sequences, SequencesExt

CONSTANT Base    \* the values of a byte, 256 in the code

ASSUME WireAssumption == Base \in Nat /\ Base > 4

Bad == -1

Malformed == [type |-> "malformed"]

(* write_u8, write_u16, write_u32 and write_u64, for widths 1, 2, 4, 8 *)
WriteUint(v, width) == [i \in 1 .. width |-> (v \div Base ^ (width - i)) % Base]

Number(bytes) ==
    LET upto[i \in 0 .. Len(bytes)] ==
          IF i = 0 THEN 0 ELSE upto[i - 1] * Base + bytes[i]
    IN  upto[Len(bytes)]

(* read_u8, read_u16, read_u32 and read_u64 *)
ReadUint(data, off, width) ==
    IF off = Bad \/ off + width > Len(data) THEN [off |-> Bad, val |-> 0]
    ELSE [off |-> off + width, val |-> Number(SubSeq(data, off + 1, off + width))]

ReadBytes(data, off, len) ==
    IF off = Bad \/ off + len > Len(data) THEN [off |-> Bad, val |-> << >>]
    ELSE [off |-> off + len, val |-> SubSeq(data, off + 1, off + len)]

(* The loops over number.val entries, given up at the first bad one;       *)
(* reader gives what is read at each offset.                               *)
ReadMany(reader, number) ==
    LET upto[i \in 0 .. number.val] ==
          IF i = 0 THEN [off |-> number.off, val |-> << >>]
          ELSE LET before == upto[i - 1]
                   next   == reader[before.off]
               IN  [off |-> next.off, val |-> Append(before.val, next.val)]
    IN  upto[number.val]

-----------------------------------------------------------------------------
(* SwimMessage *)

WriteNodeId(id) ==
    WriteUint(Len(id.host), 2) \o id.host \o WriteUint(id.port, 2)

ReadNodeId(data, off) ==
    LET len  == ReadUint(data, off, 2)
        host == ReadBytes(data, len.off, len.val)
        port == ReadUint(data, host.off, 2)
    IN  [off |-> port.off, val |-> [host |-> host.val, port |-> port.val]]

MessageType == <<"Ping", "Ack", "PingReq">>

UpdateTypes == <<"Join", "Alive", "Suspect", "Dead", "Leave">>

CodeOf(name, names) == CHOOSE i \in DOMAIN names : names[i] = name

(* Mutant of WriteUpdate: the data port is left out. *)
WriteUpdateNoPort(u) ==
    WriteUint(CodeOf(u.type, UpdateTypes) - 1, 1) \o WriteNodeId(u.node)
      \o WriteUint(u.inc, 8)

WriteUpdate(u) ==
    WriteUint(CodeOf(u.type, UpdateTypes) - 1, 1) \o WriteNodeId(u.node)
      \o WriteUint(u.inc, 8) \o WriteUint(u.port, 2)

ReadUpdate(data, off) ==
    LET type == ReadUint(data, off, 1)
        node == ReadNodeId(data, IF type.val > 4 THEN Bad ELSE type.off)
        inc  == ReadUint(data, node.off, 8)
        port == ReadUint(data, inc.off, 2)
    IN  [off |-> port.off,
         val |-> IF port.off = Bad THEN Malformed
                 ELSE [type |-> UpdateTypes[type.val + 1], node |-> node.val,
                       inc |-> inc.val, port |-> port.val]]

(* The target is a sequence of at most one node. *)
Serialize(msg) ==
    WriteUint(CodeOf(msg.type, MessageType), 1) \o WriteUint(msg.seq, 4)
      \o WriteNodeId(msg.sender)
      \o (IF msg.type = "PingReq" THEN FlattenSeq([i \in DOMAIN msg.target |->
                                                     WriteNodeId(msg.target[i])])
          ELSE << >>)
      \o WriteUint(Len(msg.updates), 2)
      \o FlattenSeq([i \in DOMAIN msg.updates |-> WriteUpdate(msg.updates[i])])

Deserialize(data) ==
    LET type   == ReadUint(data, 0, 1)
        seq    == ReadUint(data, IF type.val \in 1 .. 3 THEN type.off ELSE Bad, 4)
        sender == ReadNodeId(data, seq.off)
        asks   == type.val = 3
        target == ReadNodeId(data, sender.off)
        number == ReadUint(data, IF asks THEN target.off ELSE sender.off, 2)
        updates == ReadMany([off \in Bad .. Len(data) |-> ReadUpdate(data, off)], number)
    IN  IF updates.off = Bad THEN Malformed
        ELSE [type |-> MessageType[type.val], seq |-> seq.val,
              sender |-> sender.val,
              target |-> IF asks THEN <<target.val>> ELSE << >>,
              updates |-> updates.val]

-----------------------------------------------------------------------------
(* CLUSTER_INFO.  memcpy of a uint16_t copies the least significant byte   *)
(* first on the machines the code runs on.                                 *)

CopyUint(v) == Reverse(WriteUint(v, 2))

ReadCopy(data, off) ==
    LET bytes == ReadBytes(data, off, 2)
    IN  [off |-> bytes.off, val |-> Number(Reverse(bytes.val))]

AliveOnly(infos) == SelectSeq(infos, LAMBDA i : i.state = "Alive")

(* Mutant of ServeClusterInfo: all members are counted. *)
ServeClusterInfoCountAll(infos) ==
    CopyUint(Len(infos))
      \o FlattenSeq([i \in DOMAIN AliveOnly(infos) |->
           LET n == AliveOnly(infos)[i]
           IN  CopyUint(Len(n.host)) \o n.host \o CopyUint(n.gossip) \o CopyUint(n.data)])

(* serve_cluster_info: the members in the order of the map, the Alive ones *)
(* counted and written.                                                    *)
ServeClusterInfo(infos) ==
    CopyUint(Len(AliveOnly(infos)))
      \o FlattenSeq([i \in DOMAIN AliveOnly(infos) |->
           LET n == AliveOnly(infos)[i]
           IN  CopyUint(Len(n.host)) \o n.host \o CopyUint(n.gossip) \o CopyUint(n.data)])

ReadEndpoint(data, off) ==
    LET len    == ReadCopy(data, off)
        host   == ReadBytes(data, len.off, len.val)
        gossip == ReadCopy(data, host.off)
        port   == ReadCopy(data, gossip.off)
    IN  [off |-> port.off,
         val |-> [host |-> host.val, gossip |-> gossip.val, data |-> port.val]]

(* fetch_topology from the payload on; << >> stands for an answer that is  *)
(* refused, as an answer without nodes is by the callers.                  *)
ParseTopology(data) ==
    LET nodes == ReadMany([off \in Bad .. Len(data) |-> ReadEndpoint(data, off)],
                          ReadCopy(data, 0))
    IN  IF nodes.off = Bad THEN << >> ELSE nodes.val
=============================================================================
