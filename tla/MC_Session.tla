------------------------------ MODULE MC_Session ------------------------------
(* TLC instances of Session: the command lines.                              *)
EXTENDS Session

Regs == {"r1", "r2"}

It(kd, r, v) == [kind |-> kd, reg |-> r, val |-> v]
Keep == [f \in Fet |-> "keep"]
Blk(kd, its) == [kind |-> kd, items |-> its, want |-> Keep]

\* All parameter lists of up to n of the items.
Lists(items, n) == UNION {[1..m -> items] : m \in 0..n}

\* Both bytes of a word are told apart (B = 2: 1 is <<0,1>>, 6 wraps to <<1,0>>).
\* The third word gives r1 another value than the first.
WriteItems == { It("word", "r1", 6), It("word", "r2", 1), It("word", "r1", 1),
                It("byte0", "r1", 1), It("byte1", "r1", 1), It("packed", "r2", 0), It("badbits", "r1", 0) }
ArgItems  == WriteItems \cup { It("unknown", "r1", 0), It("novalue", "r1", 0) }
JsonItems == WriteItems \cup { It("unknown", "r1", 0), It("badtype", "r1", 0) }
TextItems == WriteItems \cup { It("unknown", "r1", 0) }

WritePlans == {<<Blk("wargs", its)>> : its \in Lists(ArgItems, 3)}
         \cup {<<Blk("wjson", its)>> : its \in Lists(JsonItems, 3)}
         \cup {<<Blk("wtext", its)>> : its \in Lists(TextItems, 3)}

ReadItems == { It("word", "r1", 0), It("unknown", "r1", 0) }
ReadBlocks == {Blk(kd, its) : kd \in {"rargs", "rjson", "rtext"}, its \in Lists(ReadItems, 2)}
         \cup {Blk(kd, <<It("word", "r1", 0), It("word", "r2", 0)>>) : kd \in {"rall", "dump"}}

FetBlocks == {[Blk("fet", <<>>) EXCEPT !.want = w] :
                w \in [Fet -> {"on", "off", "keep"}] \ {Keep}}

\* -R reg falls through to the argument loop; -g/-G go before anything else.
ReadPlans == {<<b>> : b \in ReadBlocks}
        \cup {<<Blk("rreg", <<It("word", "r1", 0)>>), Blk("rargs", <<>>)>>}
        \cup {<<Blk("reset", <<>>)>>, <<Blk("info", <<>>)>>}
        \cup {<<f, b>> : f \in FetBlocks,
                         b \in {Blk("info", <<>>), Blk("reset", <<>>),
                                Blk("wargs", <<It("word", "r1", 1)>>)}}

AllPlans == WritePlans \cup ReadPlans

\* A settings file as dumped from a BMS whose registers are all zero.
DumpPlans == {<<Blk("wjson", its)>> :
                its \in Lists({It("word", "r1", 0), It("byte0", "r1", 0), It("packed", "r2", 0)}, 3)}
=============================================================================
