------------------------------ MODULE NetStats -------------------------------
(***************************************************************************)
(* net_stats.bpf.c: two programs on the traffic of every interface count   *)
(* packets in a hash map of the kernel, one packet at a time on each CPU.  *)
(* A packet is a lookup and then either an atomic addition by way of the   *)
(* pointer that the lookup returned, or the insertion of a new element.    *)
(*                                                                         *)
(* The hash map is the kernel's: a bounded number of elements allocated in *)
(* advance, each bucket a list that grows at its head.  Updating a key     *)
(* that is there takes the CPU's spare element, puts it at the head of the *)
(* bucket, and keeps the old one, to which others may still point, as the  *)
(* next spare.                                                             *)
(*                                                                         *)
(* Bytes and packets are counted alike, so one counter stands for both.    *)
(***************************************************************************)
EXTENDS Integers, Sequences, FiniteSets, SequencesExt

CONSTANTS
    Cpus,         \* 1 .. the number of CPUs
    Ifs,          \* the ifindexes of the machine
    Capacities,   \* what max_entries may be
    Bucket(_),    \* the bucket of a key
    MaxPackets    \* bound: packets in a behaviour

ASSUME IfsAssumption == Ifs \subseteq Nat \ {0} /\ Capacities \subseteq Nat \ {0}

ASSUME CpusAssumption == IsFiniteSet(Cpus) /\ Cpus = 1 .. Cardinality(Cpus)

ASSUME BucketAssumption == \A k \in Ifs : Bucket(k) \in Nat

VARIABLES
    max_entries,
    hooks,   \* <<ifindex, direction>> to which a program is attached
    map,     \* the element of each key
    order,   \* the keys, as get_next_key walks over them
    elem,    \* the values in the elements
    spare,   \* the spare element of each CPU
    cpu,     \* what each CPU is doing
    seen     \* history: packets of each interface and direction so far

mapVars == <<map, order, elem, spare>>
kernelVars == <<max_entries, hooks, map, order, elem, spare, cpu, seen>>

Dirs == {"rcv", "snd"}
Elems == 1 .. max_entries + Cardinality(Cpus)
NoCount == [d \in Dirs |-> 0]
Asleep == [at |-> "idle", key |-> 0, dir |-> "rcv", ptr |-> 0]

NetInit ==
    /\ max_entries \in Capacities
    /\ hooks = {}
    /\ map = <<>> /\ order = <<>>
    /\ elem = [e \in Elems |-> NoCount]
    /\ spare = [c \in Cpus |-> max_entries + c]
    /\ cpu = [c \in Cpus |-> Asleep]
    /\ seen = [k \in Ifs |-> NoCount]

Put(f, k, v) == [x \in DOMAIN f \union {k} |-> IF x = k THEN v ELSE f[x]]

\* The keys but k, and with k at the head of its bucket.
Others(k) ==
    IF k \in DOMAIN map
    THEN RemoveAt(order, CHOOSE i \in DOMAIN order : order[i] = k)
    ELSE order

Headed(k) ==
    LET before == {i \in DOMAIN Others(k) : Bucket(Others(k)[i]) < Bucket(k)}
    IN  InsertAt(Others(k), Cardinality(before) + 1, k)

\* tc_ingress or tc_egress, attached to interface k, sees a packet.  (The filter
\* lets it through: neither k nor its length is zero.)
Packet(c, k, d) ==
    /\ cpu[c].at = "idle"
    /\ seen' = [seen EXCEPT ![k][d] = @ + 1]
    /\ cpu' = [cpu EXCEPT ![c] =
                 IF k \in DOMAIN map
                 THEN [at |-> "hit", key |-> k, dir |-> d, ptr |-> map[k]]
                 ELSE [at |-> "miss", key |-> k, dir |-> d, ptr |-> 0]]
    /\ UNCHANGED <<max_entries, hooks, mapVars>>

\* bpf_map_update_elem of a key that is not there, or no longer not there.
\* With all elements in use it fails, and the packet is not counted.
Insert(c) ==
    LET k == cpu[c].key
        fresh == [NoCount EXCEPT ![cpu[c].dir] = 1]
        use(e) == /\ map' = Put(map, k, e)
                  /\ elem' = [elem EXCEPT ![e] = fresh]
                  /\ order' = Headed(k)
        size == Cardinality(DOMAIN map)
    IN  /\ cpu[c].at = "miss"
        /\ \/ /\ k \in DOMAIN map
              /\ use(spare[c])
              /\ spare' = [spare EXCEPT ![c] = map[k]]
           \/ /\ k \notin DOMAIN map /\ size < max_entries
              /\ use(size + 1) /\ UNCHANGED spare
           \/ /\ k \notin DOMAIN map /\ size = max_entries
              /\ UNCHANGED mapVars
        /\ cpu' = [cpu EXCEPT ![c] = Asleep]
        /\ UNCHANGED <<max_entries, hooks, seen>>

\* Mutant of Add: the branches of the two directions are the same.
AddReceived(c) ==
    /\ cpu[c].at = "hit"
    /\ elem' = [elem EXCEPT ![cpu[c].ptr]["rcv"] = @ + 1]
    /\ cpu' = [cpu EXCEPT ![c] = Asleep]
    /\ UNCHANGED <<max_entries, hooks, map, order, spare, seen>>

\* __sync_fetch_and_add
Add(c) ==
    /\ cpu[c].at = "hit"
    /\ elem' = [elem EXCEPT ![cpu[c].ptr][cpu[c].dir] = @ + 1]
    /\ cpu' = [cpu EXCEPT ![c] = Asleep]
    /\ UNCHANGED <<max_entries, hooks, map, order, spare, seen>>

\* The packets so far, each by its interface, its direction and its number.
Packets == UNION {{kd} \X (1 .. seen[kd[1]][kd[2]]) : kd \in Ifs \X Dirs}
AllSeen == Cardinality(Packets)

Traffic ==
    \/ AllSeen < MaxPackets /\ \E c \in Cpus, kd \in hooks : Packet(c, kd[1], kd[2])
    \/ \E c \in Cpus : Insert(c) \/ Add(c)

-----------------------------------------------------------------------------
(* Properties *)

NetTypeOK ==
    /\ max_entries \in Capacities
    /\ hooks \subseteq Ifs \X Dirs
    /\ DOMAIN map \subseteq Ifs /\ Cardinality(DOMAIN map) <= max_entries
    /\ {order[i] : i \in DOMAIN order} = DOMAIN map
    /\ Len(order) = Cardinality(DOMAIN map)
    /\ \A k \in DOMAIN map : map[k] \in Elems
    /\ \A k, l \in DOMAIN map : map[k] = map[l] => k = l
    /\ elem \in [Elems -> [Dirs -> Nat]]
    /\ spare \in [Cpus -> Elems]
    /\ \A c \in Cpus, k \in DOMAIN map : spare[c] # map[k]
    /\ cpu \in [Cpus -> [at : {"idle", "hit", "miss"}, key : Ifs \union {0},
                         dir : Dirs, ptr : Elems \union {0}]]
    /\ seen \in [Ifs -> [Dirs -> Nat]]

\* No CPU is about to insert a key that is there, or holds a pointer to an
\* element that has been replaced.
Settled ==
    \A c \in Cpus :
        /\ cpu[c].at = "miss" => cpu[c].key \notin DOMAIN map
        /\ cpu[c].at = "hit" => cpu[c].ptr = map[cpu[c].key]

\* Packets of an interface that its element does not count and no CPU has in
\* hand.
Lost(k, d) ==
    seen[k][d] - elem[map[k]][d]
        - Cardinality({c \in Cpus : /\ cpu[c].at # "idle"
                                    /\ cpu[c].key = k /\ cpu[c].dir = d})

\* Packets are lost only in the race of CPUs to create an element, and in what
\* it leaves behind: while nobody is in that race, every packet of an interface
\* that has an element is counted, whatever the CPUs do at once.
NoLossOnceSettled ==
    [][(Settled /\ Settled') =>
          \A k \in DOMAIN map, d \in Dirs : Lost(k, d)' = Lost(k, d)]_kernelVars
=============================================================================
