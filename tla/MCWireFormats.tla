--------------------------- MODULE MCWireFormats ---------------------------
EXTENDS WireFormats

(* Prefixes around every boundary; the view ends before the bytes do. *)
MCRlpInputs ==
    [bytes : {<<a, b, c, 1, 1, 1, 1, 1, 1>> :
                 a \in {0, 127, 128, 129, 183, 184, 185, 191, 192, 247, 248, 249, 255},
                 b \in {0, 1, 55, 56, 127, 128, 255}, c \in {0, 1, 255}},
     size : {0, 1, 9}]

MCInts == {<< >>} \cup {<<b>> \o Fill(0, n) : b \in {1, 127, 128, 255}, n \in 0..7}

R32(byte) == Fill(byte, 32)
Legacy(data, value, v, r, wrapped) ==
    [type |-> 0, wrapped |-> wrapped, accessAt |-> 0,
     fields |-> <<<<9>>, <<4, 168>>, <<82, 8>>, Fill(53, 20), value, data, v, r, Fill(34, 32)>>]
Typed1(entries) ==
    [type |-> 1, wrapped |-> TRUE, accessAt |-> 8,
     fields |-> <<<<1>>, <<200>>, <<1, 0>>, <<82, 8>>, Fill(53, 20), << >>, <<5>>, entries, << >>,
                  Fill(33, 31), Fill(34, 30)>>]
Typed2(entries, data) ==
    [type |-> 2, wrapped |-> TRUE, accessAt |-> 9,
     fields |-> <<<<5>>, << >>, <<2>>, <<3, 1>>, <<82, 8>>, Fill(53, 20), <<7>> \o Fill(1, 9), data,
                  entries, <<1>>, Fill(33, 32), Fill(34, 32)>>]
Entry(n) == [address |-> Fill(80 + n, 20), storageKeys |-> [k \in 1..n |-> R32(k)]]

Short == Legacy(<< >>, <<5>>, <<27>>, R32(33), FALSE)
Long == Legacy(Fill(200, 60), <<3, 0>>, <<38>>, Fill(33, 31), FALSE)
BigChain == Legacy(<<1>>, << >>, <<1, 53>>, R32(33), FALSE)   \* chain id 137
(* Chain ids 0, 0 and 110, and 111, whose v is the first that wraps. *)
Boundaries == {Legacy(<<1>>, <<1>>, v, R32(33), FALSE) : v \in {<<35>>, <<36>>, <<1, 0>>, <<1, 1>>}}
Wrapped == Legacy(<<1>>, <<1>>, <<28>>, R32(33), TRUE)
NoList == Typed1(<< >>)
OneList == Typed1(<<Entry(1)>>)
TwoLists == Typed2(<<Entry(0), Entry(2)>>, Fill(1, 20))

MCEthMessages ==
    {<<tx>> : tx \in {Short, Long, BigChain, NoList, OneList, TwoLists} \cup Boundaries}
      \cup {<<Short, Typed2(<< >>, << >>), Long>>, <<TwoLists, NoList>>, <<Wrapped, Short>>}

(* The bloom filter is shortened. *)
Header(n) ==
    <<Fill(n, 32), Fill(2, 32), Fill(3, 20), Fill(4, 32), Fill(5, 32), Fill(6, 32), Fill(7, 60), <<9, 0>>,
      <<n>>, <<8, 0, 0>>, << >>, <<95, 1, 2, 3>>, <<1, 2>>, Fill(10, 32), <<0, 0, 1, 2, 3, 4, 5, 6>>>>
Block(txs, uncles) == [header |-> Header(1), txs |-> txs, uncles |-> uncles]
MCEthBlockInputs ==
    {Block(<< >>, << >>), Block(<<Short, Long, TwoLists>>, << >>), Block(<<OneList, Wrapped>>, <<Header(2)>>),
     Block(<<Long>>, <<Header(2), Header(3)>>), Block(<< >>, <<Header(2), Header(3), Header(4)>>)}

Btc(lock, version, script, witness) ==
    [version |-> version, ins |-> <<script>>, outs |-> <<<<1, 2>>, << >>>>, witness |-> witness, lock |-> lock]
Plain == Btc(1, 1, << >>, << >>)
Segwit == [Btc(2, 2, <<5>>, <<<<<<1, 2, 3>>, << >>>>, << >>>>) EXCEPT !.ins = <<<< >>, <<6>>>>]
Boundary == Btc(3, 1, Fill(4, 253), << >>)
MarkerVersion == Btc(4, 255, <<1>>, << >>)
MCBtcBlockInputs ==
    {<<Plain>>, <<Segwit, Plain, Boundary>>, <<Plain, MarkerVersion>>, <<MarkerVersion>>}
MCCompactInputs == {<<Plain>>, <<Segwit, Plain>>, <<Boundary, Segwit, Plain>>}

Ont(nonce, deploy, code, sigs) ==
    [version |-> 0, deploy |-> deploy, nonce |-> nonce, code |-> code, sigs |-> sigs]
Invoke == Ont(1, FALSE, <<1, 2, 3>>, <<<<7>>>>)
Deploy == Ont(2, TRUE, <<4>>, << >>)
LongCode == Ont(3, FALSE, Fill(4, 253), <<<<7>>, << >>>>)
MCOntBlockInputs == {<<Invoke>>, <<Invoke, Deploy, LongCode>>, <<Deploy, Invoke>>}
MCConsensusTails == {<< >>, <<1>>, <<1, 2>>, <<1, 2, 3>>}

H(n) == Fill(n, SHA256_LEN)
MCSenders ==
    {Service((H(1) :> <<1>> @@ H(2) :> Fill(2, 5)), (1 :> H(1) @@ 2 :> H(1) @@ 3 :> H(3))),
     Service((H(1) :> <<1>> @@ H(2) :> Fill(2, 5)), (1 :> H(1) @@ 70000 :> H(2)))}
MCReceivers ==
    {Service(<< >>, << >>),
     Service((H(4) :> <<4>>), (1 :> H(4) @@ 5 :> H(4))),
     Service((H(2) :> Fill(2, 5)), (1 :> H(1))),
     Service((H(1) :> <<9, 9>> @@ H(2) :> <<8>>), (3 :> H(2)))}
MCTrailers == {<< >>, <<1>>}
============================================================================
