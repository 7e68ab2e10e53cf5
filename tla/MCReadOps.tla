------------------------------ MODULE MCReadOps ------------------------------
(* Bounded layouts for ReadOps. *)
EXTENDS ReadOps

CONSTANTS HdrSizes, BodySizes, MaxMessages

SmallMessages == [hdr : HdrSizes, body : BodySizes, kind : MessageKinds]

SmallLayouts == UNION {[1..n -> SmallMessages] : n \in 1..MaxMessages}
=============================================================================
