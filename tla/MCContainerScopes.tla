----------------------------- MODULE MCContainerScopes -----------------------------
(* One request; three tokens whose classes may form a diamond and cycles.  *)
EXTENDS ContainerScopes

CONSTANTS tokenA, tokenB, tokenC

SomeDeps ==
  [t \in {tokenA, tokenB, tokenC} |->
     CASE t = tokenA -> {<<tokenC, tokenB>>}
       [] t = tokenB -> {<<tokenC>>}
       [] t = tokenC -> {<<>>, <<tokenA>>}]
=====================================================================================
