--------------------------- MODULE MCLetterDelivery ---------------------------
EXTENDS LetterDelivery

Photo(name, type, size, pixels) ==
    [name |-> name, kind |-> "image", type |-> type, size |-> size,
     pixels |-> pixels]
Video(name, type, size) ==
    [name |-> name, kind |-> "video", type |-> type, size |-> size,
     pixels |-> "fits"]

\* A letter without files, a photo whose original may be kept and a video, two
\* videos of one form, one of another, two photos that must be encoded, and
\* files that are refused.
MCSelections ==
    {<< >>,
     <<Photo("j", "jpeg", 30, "fits"), Video("v", "mp4", 100)>>,
     <<Video("v", "mp4", 100), Video("w", "mp4", 100)>>,
     <<Video("m", "mov", 100)>>,
     <<Photo("p", "png", 50, "large"), Photo("q", "webp", 50, "large")>>,
     <<Photo("o", "png", 50, "over")>>, <<Video("z", "mp4", 0)>>,
     <<Video("h", "mp4", 300)>>, <<Photo("g", "gif", 50, "fits")>>}

MCEncodedSizes == {20, 50}

\* A text that begins with a byte order mark, and one that compresses.
MCHonestText == [words |-> "short", mark |-> TRUE, size |-> 12, gzip |-> 30]
MCForeignText == [words |-> "long", mark |-> FALSE, size |-> 60, gzip |-> 25]

MCParcels ==
    {<<[type |-> 1, codec |-> 2, content |-> "j", size |-> 30],
       [type |-> 2, codec |-> 16, content |-> "v", size |-> 20]>>}
=============================================================================
