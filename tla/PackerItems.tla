---------------------------- MODULE PackerItems -----------------------------
(* What is packed where bytes have three values: a u16 has two of them, a    *)
(* str is no longer than seven, and the length of one of nine no longer fits.*)
EXTENDS Integers

Item(type, value) == <<type, value>>

ItemOwners == [locktime |-> 2, threshold |-> 1, addresses |-> <<<<1>>, <<2>>>>]
ItemUtxo(lock) == [tx_id |-> <<1>>, output_index |-> 2, asset_id |-> <<2>>, lock |-> lock,
                   amount |-> 30, owners |-> ItemOwners]

MCItems ==
  {Item("byte", 2), Item("u16", 5), Item("u32", 13), Item("u64", 80), Item("bool", TRUE),
   Item("bytes", <<1, 0>>), Item("bytes_with_header", <<0, 2, 1>>),
   Item("2d_bytes", <<<<1, 2>>, <<0, 1>>>>), Item("2d_bytes_with_header", <<<<>>, <<2>>>>),
   Item("str", <<2, 1>>), Item("str", <<1, 1, 1, 1, 1, 1, 1, 1>>),
   Item("ips", <<[addr |-> <<1, 0>>, port |-> 4], [addr |-> <<0, 1, 0, 2>>, port |-> 8]>>),
   Item("utxo", ItemUtxo(<<>>)), Item("utxo", ItemUtxo(<<9>>)),
   Item("vertex", [codec_version |-> 1, chain_id |-> <<2>>, height |-> 3, epoch |-> 1,
                   parent_ids |-> <<<<2>>, <<1>>>>, txs |-> <<<<1>>, <<0, 2>>>>])}

LongStr == {Item("str", <<1, 0, 0, 0, 0, 0, 0, 0, 0>>)}
MCLoads == {<<0, 2, 1, 1, 2, 0, 2>>}
=============================================================================
