----------------------------- MODULE MCOverlay -----------------------------
EXTENDS Overlay
CONSTANTS blank, short, long

MCBase == <<short, long>>
MCShortBase == <<short, short>>
\* One byte per newline: a line ends in one exactly when it is terminated.
MCOneByte(t, terminated) == terminated
\* UTF-16LE: the last byte is the high byte of the last unit.
MCUtf16LE(t, terminated) == FALSE

MCPastes == {<<blank>>, <<short, long>>}
=============================================================================
