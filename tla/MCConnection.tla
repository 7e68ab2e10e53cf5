------------------------------ MODULE MCConnection ------------------------------
(* Bounded layouts for Connection: requests, whose bodies have a size. *)
EXTENDS Connection

CONSTANTS BodySizes, MaxMessages

Requests == [hdr : {1}, body : BodySizes, kind : {"sized", "bad_header"}]

RequestLayouts == UNION {[1..n -> Requests] : n \in 1..MaxMessages}
================================================================================
