----------------------------- MODULE TxSamples ------------------------------
(* Transactions that are nearly alike: each differs from another in one      *)
(* field, in the order of a list, or in where one list ends and the next     *)
(* begins.                                                                   *)
EXTENDS Integers, SequencesExt

Owned(lock, by) == [locktime |-> lock, threshold |-> 1, addresses |-> by]
Out(a, lock, amt, o) == [asset_id |-> a, lock |-> lock, amount |-> amt, owners |-> o, option |-> "Some"]
In(t, i, lock, sigs) == [tx_id |-> t, output_index |-> i, asset_id |-> 1, lock |-> lock,
                         amount |-> 2, sig_indices |-> sigs, option |-> "Some"]
NoOut == [Out(1, <<>>, 1, Owned(0, <<>>)) EXCEPT !.option = "None"]

Outs == {Out(1, <<>>, 1, Owned(0, <<1, 2>>)), Out(1, <<>>, 1, Owned(0, <<2>>)),
         Out(1, <<>>, 1, Owned(1, <<1>>)), Out(1, <<>>, 2, Owned(0, <<1>>)),
         Out(1, <<1>>, 2, Owned(0, <<1>>)), Out(1, <<2>>, 1, Owned(0, <<1>>)),
         Out(2, <<>>, 1, Owned(0, <<1>>))}
Ins == {In(1, 2, <<>>, <<0>>), In(2, 1, <<>>, <<0, 1>>), In(1, 1, <<3>>, <<0>>)}
SomeOuts == {<<>>, <<Out(1, <<>>, 1, Owned(0, <<1>>))>>, <<Out(1, <<1>>, 2, Owned(0, <<1>>))>>}
SomeIns == {<<>>, <<In(1, 2, <<>>, <<0>>)>>, <<In(1, 1, <<3>>, <<0>>)>>}

Tx(type, outs, ins, memo, own) ==
  [type |-> type, network_id |-> 1, blockchain_id |-> 1, outputs |-> outs,
   inputs |-> ins, memo |-> memo, own |-> own]
NoOwn == [none |-> 0]
Val(n) == [node_id |-> n, start |-> 1, end |-> 2, weight |-> 3]


MCTxs ==
  {Tx("avm_BaseTx", o, <<>>, <<>>, NoOwn) : o \in BoundedSeq(Outs, 2)}
  \union {Tx("avm_BaseTx", <<>>, i, m, NoOwn) : i \in BoundedSeq(Ins, 2), m \in {<<>>, <<0>>}}
  \union {Tx("avm_BaseTx", <<NoOut>>, <<>>, <<>>, NoOwn)}
  \union {Tx(t, <<>>, <<>>, <<>>, [chain |-> c, inputs |-> i]) :
            t \in {"ImportTx", "avm_ImportTx"}, c \in {0, 1}, i \in SomeIns}
  \union {Tx(t, <<>>, <<>>, <<>>, [chain |-> c, outputs |-> o]) :
            t \in {"ExportTx", "avm_ExportTx"}, c \in {0, 1}, o \in SomeOuts}
  \union {Tx("AddValidatorTx", <<>>, <<>>, <<>>,
             [validator |-> Val(1), outputs |-> o, rewards_owner |-> w, shares |-> s]) :
            o \in SomeOuts \union {<<NoOut>>}, w \in {Owned(0, <<1>>), Owned(0, <<>>)}, s \in {1, 2}}
  \union {Tx("AddPermissionlessValidatorTx", <<>>, <<>>, <<>>,
             [validator |-> Val(1), subnet_id |-> 1, signer |-> g, outputs |-> o,
              rewards_owner |-> w, delegator_owner |-> d, shares |-> 1]) :
            g \in {<<>>, <<0, 0>>, <<1, 2>>}, o \in SomeOuts,
            w \in {Owned(0, <<1>>)}, d \in {Owned(0, <<1>>), Owned(0, <<>>)}}
  \union {Tx("AddSubnetValidatorTx", <<>>, <<>>, <<>>,
             [validator |-> Val(n), subnet_id |-> 1, sig_indices |-> x]) :
            n \in {1, 2}, x \in {<<>>, <<0>>, <<0, 1>>}}
  \union {Tx("CreateSubnetTx", <<>>, <<>>, <<>>, [rewards_owner |-> Owned(k, a)]) :
            k \in {0, 1}, a \in {<<>>, <<1>>, <<1, 2>>}}
  \union {Tx("CreateChainTx", <<>>, <<>>, <<>>,
             [subnet_id |-> 1, chain_name |-> c, vm_id |-> 1, fx_ids |-> f, genesis |-> g,
              sig_indices |-> x]) :
            c \in {<<1>>, <<1, 1>>}, f \in {<<>>, <<1>>}, g \in {<<>>, <<1>>, <<0, 1>>},
            x \in {<<>>, <<0>>}}


MCSigners == {<<>>, <<<<1>>>>, <<<<1>>, <<2>>>>}
=============================================================================
