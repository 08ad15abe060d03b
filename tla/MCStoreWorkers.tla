--------------------------- MODULE MCStoreWorkers ---------------------------
(* Two store workers, on a synchronous and on an asynchronous replica, and  *)
(* the checkout worker of one of them.                                      *)
EXTENDS StoreWorkers

CONSTANTS r1, r2

TwoStoreOneCheckout == {<<r1, "store">>, <<r2, "store">>, <<r1, "checkout">>}

=============================================================================
