------------------------- MODULE MCClientOperations -------------------------
(* ClientOperations on small instances. *)
EXTENDS ClientOperations, TLC

CONSTANTS a, b

\* A pin and a file, whose events share acb_; two proxies of each
\* interface without events.
Pairs == {(a :> "gpio") @@ (b :> "file"), (a :> "fs") @@ (b :> "fs"),
          (a :> "i2c") @@ (b :> "i2c"), (a :> "spi") @@ (b :> "spi")}
=============================================================================
