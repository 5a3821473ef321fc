------------------------------ MODULE Publisher ------------------------------
(***************************************************************************)
(* Publisher::publish (Publisher.cpp): a publication that is longer than   *)
(* the MTU is sent in fragments, cut at the commas that end its points.    *)
(*                                                                         *)
(* The text is known by where its parts end: part i, with its comma, ends  *)
(* after End[i] characters.  Every provider of the repository ends the     *)
(* last point with a comma too, so that split returns one more part, an    *)
(* empty one, to which the loop adds a comma as it does to the others.     *)
(***************************************************************************)
EXTENDS Naturals

CONSTANTS
    NumParts,   \* the points of a publication
    End,        \* 0 .. NumParts -> the length of the text up to that part
    MTU

Parts == 1 .. NumParts

ASSUME PublisherAssumption ==
    /\ NumParts \in Nat \ {0} /\ MTU \in Nat
    /\ End \in [0 .. NumParts -> Nat] /\ End[0] = 0
    /\ \A i, j \in 0 .. NumParts : i < j => End[i] < End[j]

VARIABLES
    part,    \* the part the loop is at, 0 when nothing is being published
    first,   \* message holds the parts from first up to part
    sent     \* part -> how often it was sent in this publication

publisherVars == <<part, first, sent>>

-----------------------------------------------------------------------------
size == End[NumParts]

\* count: the length of everything up to part i, the empty one included.
Count(i) == IF i = NumParts + 1 THEN size + 1 ELSE End[i]

\* Defect: the end of the text does not end the last message.
FitsAtEnd == Count(part) - End[first - 1] < MTU

\* The part still fits in the message, and the text is not used up.
Fits == Count(part) - End[first - 1] < MTU /\ Count(part) <= size

\* publish(zmq::message_t): the parts from first up to last leave in one datagram.
Datagram(last) == sent' = [p \in Parts |-> IF p \in first .. last THEN sent[p] + 1 ELSE sent[p]]

PublisherInit ==
    /\ part = 0
    /\ first = 1
    /\ sent = [p \in Parts |-> 0]

BeginPublish ==
    /\ part = 0
    /\ part' = 1
    /\ first' = 1
    /\ sent' = [p \in Parts |-> 0]

PublishWhole ==
    /\ part = 1 /\ size <= MTU
    /\ Datagram(NumParts)
    /\ part' = NumParts + 2
    /\ UNCHANGED first

AddPart ==
    /\ part \in 1 .. NumParts + 1 /\ size > MTU
    /\ Fits
    /\ part' = part + 1
    /\ UNCHANGED <<first, sent>>

\* The message leaves without this part, the next one starts with it.  Nothing
\* is sent after the loop.
Flush ==
    /\ part \in 1 .. NumParts + 1 /\ size > MTU
    /\ ~Fits
    /\ Datagram(part - 1)
    /\ first' = part
    /\ part' = part + 1

PublishStep == PublishWhole \/ AddPart \/ Flush

LoopDone == part = NumParts + 2

EndPublish ==
    /\ LoopDone
    /\ part' = 0
    /\ UNCHANGED <<first, sent>>

-----------------------------------------------------------------------------
PublisherTypeOK ==
    /\ part \in 0 .. NumParts + 2
    /\ first \in 1 .. NumParts + 1
    /\ sent \in [Parts -> Nat]

\* Whatever the lengths of its points, a publication that has been sent holds
\* every point exactly once: the fragmentation loses, repeats and splits none,
\* although it sends nothing after its loop.
EachPartSentOnce == LoopDone => \A p \in Parts : sent[p] = 1
=============================================================================
