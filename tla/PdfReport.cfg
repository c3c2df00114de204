\* Two sections, three images; a fourth page and the bytes of all images are too much.
SPECIFICATION Spec
CONSTANTS
    tall = tall
    photo = photo
    small = small
    Images <- MCImages
    Source <- MCSource
    Bytes <- MCBytes
    Sections <- MCSections
    MaxSections = 2
    Closings <- MCClosings
    MaxPages = 3
    MaxImageBytes = 3
INVARIANT NothingOverlaps
INVARIANT HeadingsKeepTheirText
INVARIANT ImagesWhereAsked
CHECK_DEADLOCK FALSE
