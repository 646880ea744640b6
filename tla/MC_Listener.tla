------------------------------- MODULE MC_Listener -------------------------------
(* WebSocketListener under StreamsClient: its caller and one more writer.  *)
EXTENDS StreamsClient

Lengths  == {2, 3}     \* one full request, and an uneven last one
Quarters == {3, 8}     \* empty chunks, and chunks of two
Texts    == 0..MaxRequests

=============================================================================
