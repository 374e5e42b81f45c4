\* leave() while join() awaits the media.
SPECIFICATION Spec
CONSTANTS
    Call = {c1}
    Null = Null
INVARIANT
    LeaveReleases
