-------------------------------- MODULE MC_Feeder --------------------------------
(* BNBFeeder with its owner and a second consumer, which may also stop it. *)
EXTENDS BNBFeeder

ListLengths == {1, 5}     \* one request, and a list cut into several
Limits      == {3, 4, 9}  \* empty chunks, a truncated list, an uneven last chunk
OneSymbol   == {1}
OneLimit    == {4}
RequestIds  == 1..MaxRequests

=============================================================================
