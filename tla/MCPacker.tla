------------------------------ MODULE MCPacker ------------------------------
(* The packer, given a str whose length no longer fits, too.                 *)
EXTENDS Packer, PackerItems

WithLongStr == MCItems \union LongStr
=============================================================================
