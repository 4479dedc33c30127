----------------------------- MODULE Reconstruct -----------------------------
(***************************************************************************)
(* Compression and what comes after it: decompress() goes over the streams  *)
(* of a published artifact and rebuilds each from its node (visit in        *)
(* decompress.rs).  build_rank stores one flat batch per stream; artifacts  *)
(* of version 1 hold call trees over the same kind of table.  The recursion *)
(* over children is a list of the nodes still to visit, in the order the    *)
(* recursion reaches them.                                                  *)
(***************************************************************************)
EXTENDS Compressor, SequencesExt

CONSTANTS
  OldTrace,    \* the trace whose table a version 1 artifact has
  OldNodes,    \* nodes it may hold for its first stream
  OldDepth     \* how many levels those trees have at most

VARIABLES
  nodes,       \* None, or while decompress() runs the node of every stream
  visiting,    \* how many streams were begun
  todo,        \* nodes the recursion has still to visit
  rebuilt      \* what was pushed to the trace, in order
nodeVars == <<nodes, visiting, todo, rebuilt>>
systemVars == <<vars, nodeVars>>

Idle == nodes = None /\ visiting = 0 /\ todo = <<>> /\ rebuilt = <<>>

SystemInit == Init /\ Idle

-----------------------------------------------------------------------------
Ref(t, i) == [template |-> t, instance |-> i]

\* Two parallel arrays: iter().zip() stops at the end of the shorter one.
Paired(ts, is) ==
  [p \in 1..(IF Len(ts) < Len(is) THEN Len(ts) ELSE Len(is)) |-> Ref(ts[p], is[p])]

\* The node build_rank makes of a stream: two parallel arrays of ids.
Batch(i) ==
  [k         |-> IF IsGpu(i) THEN "gpu" ELSE "cpu_batch",
   templates |-> [p \in DOMAIN ranks[i] |-> ranks[i][p].template],
   instances |-> [p \in DOMAIN ranks[i] |-> ranks[i][p].instance]]

Batches == [i \in DOMAIN trace |-> Batch(i)]

\* Node::children: the immediate children of any variant.
Children(node) ==
  CASE node.k = "root"     -> node.children
    [] node.k = "cpu"      -> node.children \o node.slots
    [] node.k = "same_cpu" -> node.children \o FlattenSeq(node.slots)
    [] OTHER               -> <<>>

\* The nodes one level down, and d levels down, from left to right.
Below(list) == FlattenSeq([p \in DOMAIN list |-> Children(list[p])])

Level(list, d) ==
  LET down[e \in 0..OldDepth] == IF e = 0 THEN list ELSE Below(down[e - 1])
  IN  down[d]

\* A sequence, of whatever elements.
IsList(s) == s \in Seq({s[p] : p \in DOMAIN s})

\* The fields of the variants (node.rs): whatever JSON artifact of version 1 was
\* read, serde gives every node the fields of its variant.
WellFormed(node) ==
  \/ node.k = "root" /\ IsList(node.children)
  \/ node.k = "cpu" /\ IsList(node.children) /\ IsList(node.slots)
  \/ /\ node.k = "same_cpu" /\ IsList(node.instances) /\ IsList(node.children)
     /\ IsList(node.slots) /\ \A p \in DOMAIN node.slots : IsList(node.slots[p])
  \/ node.k \in {"cpu_batch", "gpu"} /\ IsList(node.templates) /\ IsList(node.instances)
  \/ node.k = "kernel_launch"
  \/ /\ node.k = "kernels_launch" /\ IsList(node.cpu_instances)
     /\ IsList(node.gpu_templates) /\ IsList(node.gpu_instances)

\* Trees are finite.
ASSUME OldNodeAssumption ==
  /\ OldDepth \in Nat \ {0}
  /\ \A root \in OldNodes :
       /\ \A d \in 0..(OldDepth - 1) : \A p \in DOMAIN Level(<<root>>, d) :
            WellFormed(Level(<<root>>, d)[p])
       /\ Level(<<root>>, OldDepth) = <<>>

-----------------------------------------------------------------------------
\* decompress() is called on the artifact, which is of version 2 or of version 1.
ReadArtifact ==
  /\ phase = "done" /\ Idle
  /\ \/ nodes' = Batches
     \/ trace = OldTrace /\ \E node \in OldNodes : nodes' = [Batches EXCEPT ![1] = node]
  /\ UNCHANGED <<vars, visiting, todo, rebuilt>>

AtNode == nodes # None /\ todo # <<>>
BetweenStreams == nodes # None /\ todo = <<>>

NextStream ==
  /\ BetweenStreams /\ visiting < Len(nodes)
  /\ visiting' = visiting + 1
  /\ todo' = <<nodes[visiting + 1]>>
  /\ UNCHANGED <<vars, nodes, rebuilt>>

DecompressReturns ==
  /\ BetweenStreams /\ visiting = Len(nodes)
  /\ nodes' = None /\ visiting' = 0 /\ rebuilt' = <<>>
  /\ UNCHANGED <<vars, todo>>

\* emit_cpu and emit_gpu of every reference; one that does not resolve is skipped.
Emit(tbl, kind, at, ref) ==
  IF ~Resolves(tbl, kind, ref) THEN <<>>
  ELSE <<IF kind = "cpu" THEN EmitCpu(tbl, at, ref) ELSE EmitGpu(tbl, at, ref)>>

EmitAll(tbl, kind, at, refs) ==
  FlattenSeq([p \in DOMAIN refs |-> Emit(tbl, kind, at, refs[p])])

\* One call of visit, for a node of variant k: the references are emitted as
\* events of the kind, then the nested nodes are visited.
Node == Head(todo)
Visit(k, kind, refs, nested) ==
  /\ AtNode /\ Node.k = k
  /\ rebuilt' = rebuilt \o EmitAll(table, kind, trace[visiting].at, refs)
  /\ todo' = nested \o Tail(todo)
  /\ UNCHANGED <<vars, nodes, visiting>>

VisitRoot == Visit("root", "cpu", <<>>, Node.children)

VisitCpu ==
  Visit("cpu", "cpu", <<Ref(Node.template, Node.instance)>>, Node.children \o Node.slots)

VisitCpuBatch == Visit("cpu_batch", "cpu", Paired(Node.templates, Node.instances), <<>>)

SameCpuRefs(node) == [p \in DOMAIN node.instances |-> Ref(node.template, node.instances[p])]

\* Mutant of VisitSameCpu: the trailers of the first instance only.
VisitSameCpuMutant ==
  Visit("same_cpu", "cpu", SameCpuRefs(Node),
        Node.children \o (IF Node.slots = <<>> THEN <<>> ELSE Node.slots[1]))

VisitSameCpu ==
  Visit("same_cpu", "cpu", SameCpuRefs(Node), Node.children \o FlattenSeq(Node.slots))

VisitGpu == Visit("gpu", "gpu", Paired(Node.templates, Node.instances), <<>>)

\* The launch is left to the enclosing node: cpu_template and cpu_instance are
\* not read.
VisitKernelLaunch ==
  Visit("kernel_launch", "gpu", <<Ref(Node.gpu_template, Node.gpu_instance)>>, <<>>)

VisitKernelsLaunch ==
  Visit("kernels_launch", "gpu", Paired(Node.gpu_templates, Node.gpu_instances), <<>>)

DecompressStep ==
  \/ ReadArtifact \/ NextStream \/ DecompressReturns
  \/ VisitRoot \/ VisitCpu \/ VisitCpuBatch \/ VisitSameCpu
  \/ VisitGpu \/ VisitKernelLaunch \/ VisitKernelsLaunch

\* One thread calls compress() and decompress() in turn.
SystemNext ==
  \/ Idle /\ Next /\ UNCHANGED nodeVars
  \/ DecompressStep

\* compress() runs to its end once called, and so does decompress().
SystemSpec ==
  /\ SystemInit /\ [][SystemNext]_systemVars
  /\ WF_vars(Work) /\ WF_systemVars(DecompressStep /\ ~Idle)

-----------------------------------------------------------------------------
(* Properties.                                                              *)

\* Every node reachable through Node::children.
AllNodes(root) == FlattenSeq([d \in 1..OldDepth |-> Level(<<root>>, d - 1)])

\* The references visit takes from a node itself.
CpuRefs(node) ==
  CASE node.k = "cpu"       -> <<Ref(node.template, node.instance)>>
    [] node.k = "cpu_batch" -> Paired(node.templates, node.instances)
    [] node.k = "same_cpu"  -> SameCpuRefs(node)
    [] OTHER -> <<>>

GpuRefs(node) ==
  CASE node.k = "gpu"            -> Paired(node.templates, node.instances)
    [] node.k = "kernel_launch"  -> <<Ref(node.gpu_template, node.gpu_instance)>>
    [] node.k = "kernels_launch" -> Paired(node.gpu_templates, node.gpu_instances)
    [] OTHER -> <<>>

\* The CPU launches that node.rs:91-104 gives a launch node besides its kernels.
LaunchRefs(node) ==
  CASE node.k = "kernel_launch"  -> <<Ref(node.cpu_template, node.cpu_instance)>>
    [] node.k = "kernels_launch" ->
         [p \in DOMAIN node.cpu_instances |-> Ref(node.cpu_template, node.cpu_instances[p])]
    [] OTHER -> <<>>

OwnEvents(tbl, node, at) ==
  EmitAll(tbl, "cpu", at, CpuRefs(node)) \o EmitAll(tbl, "gpu", at, GpuRefs(node))

EventsOf(tbl, list, at) ==
  FlattenSeq([p \in DOMAIN list |-> OwnEvents(tbl, list[p], at)])

EventsOfStream(i) == EventsOf(table, AllNodes(nodes[i]), trace[i].at)

Times(events, e) == Cardinality({p \in DOMAIN events : events[p] = e})

\* Two sequences hold the same events as often.
SameEvents(a, b) ==
  Len(a) = Len(b) /\ \A e \in ToSet(a) \cup ToSet(b) : Times(a, e) = Times(b, e)

Placed(i) ==
  [k \in DOMAIN trace[i].events |-> [at |-> trace[i].at, event |-> trace[i].events[k]]]

\* The launches of a node are in the trace.
LaunchesIn(events, node, at) ==
  ToSet(EmitAll(table, "cpu", at, LaunchRefs(node))) \subseteq ToSet(events)

\* A launch node below a node that refers to its launches (decompress.rs:104).
Enclosed(node, list) ==
  \E p \in DOMAIN list : /\ node \in ToSet(Children(list[p]))
                        /\ ToSet(LaunchRefs(node)) \subseteq ToSet(CpuRefs(list[p]))

\* Of the streams visited every event is rebuilt, once for each node that refers
\* to it: visit, which takes the variants apart itself, reaches the nodes that
\* Node::children enumerates (decompress.rs:64, node.rs:108).  The CPU launch of an
\* enclosed launch node is among them, beside its kernel.  Of an artifact
\* compress() made, these are the events of the trace, in their order, each at
\* the stream it came from.
EventsRebuilt ==
  BetweenStreams =>
    /\ SameEvents(rebuilt, FlattenSeq([i \in 1..visiting |-> EventsOfStream(i)]))
    /\ \A i \in 1..visiting : \A node \in ToSet(AllNodes(nodes[i])) :
         Enclosed(node, AllNodes(nodes[i])) => LaunchesIn(rebuilt, node, trace[i].at)
    /\ nodes = Batches => rebuilt = FlattenSeq([i \in 1..visiting |-> Placed(i)])

\* decompress.rs:13-15: KernelLaunch and KernelsLaunch emit "**two** events: the CPU
\* launch under the tree coordinate, and the GPU kernel".
LaunchesRebuilt ==
  BetweenStreams =>
    \A i \in 1..visiting : \A node \in ToSet(AllNodes(nodes[i])) :
      LaunchesIn(rebuilt, node, trace[i].at)

\* compress() returns, and so does decompress().
CallsReturn == CompressReturns /\ (nodes # None ~> Idle)
=============================================================================
