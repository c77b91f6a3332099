CONSTANTS
    Folders <- MCFolders
    Names <- MCNames
    Kinds <- MCKinds
    SelfDeleting <- MCSelfDeleting
    Contents <- AnyContent
    Parts = {1, 2}
    Downloads <- AnyDownload
    Under <- MCUnder
SPECIFICATION Spec
PROPERTIES RemovedAnywhere
CHECK_DEADLOCK FALSE
