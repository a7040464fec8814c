--------------------------- MODULE MCPrefixMapping ---------------------------
\* PrefixMapping over short strings of three characters.
EXTENDS PrefixMapping

MCChar == {"a", "b", "/"}
Strings(max) == UNION {[1..n -> MCChar] : n \in 0..max}
MCPrefixes == Strings(2)
MCPaths == Strings(4)
=============================================================================
