---- MODULE MCNetworking ----
EXTENDS Networking, TLC
CONSTANTS c1, c2, c3
\* A greedy client that fills every buffer; a client that waits for answers
\* and sends a frame of the largest size; one that sends an illegal frame; two
\* clients one of which leaves events for the other behind; silent clients,
\* more than there are descriptors.
MCWorkloads == {
  c1 :> <<1, 1, 1, 1, 2>>,
  c2 :> <<2, 1, 1, 1>>,
  c3 :> <<1, 3>>,
  c1 :> <<1, 1>> @@ c2 :> <<1, 1>>,
  c1 :> <<>> @@ c2 :> <<>> @@ c3 :> <<>>}
====
