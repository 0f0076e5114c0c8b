------------------------ MODULE MCChannelDescriptor ------------------------
(* An instance of ChannelDescriptor for TLC.                                *)
EXTENDS ChannelDescriptor, TLC

CONSTANTS h1, h2, h3, h4, k1, k2, n1, n2, a, b, e1, aws, b1

Says(e, r) == [endpoint |-> e, bucket |-> b1, ref |-> r]

Chan(name, ns, says) == [name |-> name, ns |-> ns, spec |-> says]

(* A server of one's own, Amazon's, and a pathname that cannot be split.    *)
Places == {Says(e1, NoNs), Says(aws, n1), Says(NoSlash, NoRef)}

(* Channel a, on a server of its own and after its user broke its pathname; *)
(* another channel a in n2; and channel b, on two servers in turn.          *)
Coming == {Chan(a, n1, Says(e1, NoNs)), Chan(a, n1, Says(NoSlash, NoRef)),
           Chan(a, n2, Says(e1, NoNs)),
           Chan(b, n1, Says(e1, NoNs)), Chan(b, n1, Says(aws, n1))}

Interchangeable == Permutations(Handlers \ Given) \cup Permutations(Callers)
============================================================================
